---- MODULE Spec2Model ----
(***************************************************************************)
(* QueryLens (src/index.tsx): the interactive crop-region editor           *)
(* (class CropManager) together with the App handlers that drive it        *)
(* (capturePhoto, rotatePreviewImage, confirmPhoto, start).                *)
(*                                                                         *)
(* The editor's fields, the canvas element, the overlay element (#crop-box)*)
(* and the three listener targets (canvas container, window, overlay) are  *)
(* the state.  Every method of CropManager is an operator from the editor  *)
(* state (a record "s" with one field per variable) to the editor state    *)
(* after the method returned; every action applies one handler as a whole. *)
(*                                                                         *)
(* Numbers: the geometry of the source is JavaScript floating point.  The  *)
(* model keeps integers: every layout below renders the canvas at an       *)
(* integer ratio of its intrinsic size, so every pointer position is an    *)
(* integer number of surface pixels and +, -, min, max are exact.          *)
(***************************************************************************)
EXTENDS Integers, Sequences, FiniteSets, TLC

VARIABLES
    cropRect,            \* CropManager.cropRect {x, y, width, height}
    activeHandle,        \* CropManager.activeHandle (string | null)
    isManipulating,      \* CropManager.isManipulating
    isDrawing,           \* CropManager.isDrawing
    isCropDefined,       \* CropManager.isCropDefined
    startPointer,        \* CropManager.startPointer {x, y}
    startCropRect,       \* CropManager.startCropRect {x, y, width, height}
    canvasEl,            \* the canvas: intrinsic width, height and its bitmap
    cropBoxEl,           \* the overlay: class "hidden", style, listeners
    containerListeners,  \* listeners on canvasEl.parentElement
    windowListeners,     \* listeners on window
    view,                \* the view UIManager.showView made visible
    lastOp,              \* the handler or method that ran last
    steps,               \* the number of handlers that ran so far
    twin                 \* the second variant's CropManager: its fields, as a record

vars == <<cropRect, activeHandle, isManipulating, isDrawing, isCropDefined,
          startPointer, startCropRect, canvasEl, cropBoxEl,
          containerListeners, windowListeners, view, lastOp, steps, twin>>

(***************************************************************************)
(* JavaScript helpers.                                                     *)
(***************************************************************************)
Null == "null"

Max(a, b) == IF a >= b THEN a ELSE b

Min(a, b) == IF a <= b THEN a ELSE b

Abs(a) == IF a < 0 THEN -a ELSE a

\* The characters of every string that can be a handle identity.
Chars ==
    [h \in {"n", "s", "e", "w", "ne", "nw", "se", "sw", "move", "", "x", "left"} |->
        CASE h = "n"    -> <<"n">>
          [] h = "s"    -> <<"s">>
          [] h = "e"    -> <<"e">>
          [] h = "w"    -> <<"w">>
          [] h = "ne"   -> <<"n", "e">>
          [] h = "nw"   -> <<"n", "w">>
          [] h = "se"   -> <<"s", "e">>
          [] h = "sw"   -> <<"s", "w">>
          [] h = "move" -> <<"m", "o", "v", "e">>
          [] h = ""     -> <<>>
          [] h = "x"    -> <<"x">>
          [] h = "left" -> <<"l", "e", "f", "t">>]

\* String.prototype.includes for a one-character needle.
Includes(h, c) == \E i \in DOMAIN Chars[h] : Chars[h][i] = c

(***************************************************************************)
(* Program constants.                                                      *)
(***************************************************************************)
MinSize == 30

DrawThreshold == 5

(***************************************************************************)
(* The canvas bitmap.  Every drawing call of the source copies pixels      *)
(* without scaling (a crop, a quarter turn), so the bitmap is kept as the  *)
(* map from canvas pixel (i, j) to the pixel of the captured frame it      *)
(* shows: (a*i + b*j + e, c*i + d*j + f) inside the opaque window          *)
(* [x0, x1) x [y0, y1), transparent outside of it.                         *)
(***************************************************************************)
Transparent == <<"transparent">>

\* A canvas whose width or height was just assigned: cleared to transparent.
BlankBitmap == [a |-> 1, b |-> 0, c |-> 0, d |-> 1, e |-> 0, f |-> 0,
                x0 |-> 0, y0 |-> 0, x1 |-> 0, y1 |-> 0]

\* ctx.drawImage(video, 0, 0, w, h): the whole frame, pixel (i, j) at (i, j).
FrameBitmap(w, h) == [BlankBitmap EXCEPT !.x1 = w, !.y1 = h]

\* The pixel a canvas shows at (i, j).
PixelAt(cv, i, j) ==
    LET bm == cv.bitmap IN
    IF /\ 0 <= i /\ i < cv.width /\ 0 <= j /\ j < cv.height
       /\ bm.x0 <= i /\ i < bm.x1 /\ bm.y0 <= j /\ j < bm.y1
    THEN <<bm.a * i + bm.b * j + bm.e, bm.c * i + bm.d * j + bm.f>>
    ELSE Transparent

\* An empty opaque window has one representation.
NormBitmap(bm) ==
    IF bm.x0 >= bm.x1 \/ bm.y0 >= bm.y1 THEN BlankBitmap ELSE bm

\* A new canvas of w x h pixels (assigning width/height clears it).
NewCanvas(w, h) == [width |-> w, height |-> h, bitmap |-> BlankBitmap]

\* dst.getContext('2d').drawImage(src, sx, sy, sw, sh, 0, 0, sw, sh) on a
\* cleared dst: dst pixel (i, j) becomes src pixel (sx + i, sy + j) where
\* that lies inside src and inside dst, and stays transparent elsewhere.
DrawImage(dst, src, sx, sy, sw, sh) ==
    LET bm == src.bitmap
        lox == Max(Max(bm.x0, 0), sx)
        loy == Max(Max(bm.y0, 0), sy)
        hix == Min(Min(bm.x1, src.width), sx + sw)
        hiy == Min(Min(bm.y1, src.height), sy + sh)
    IN  [dst EXCEPT !.bitmap = NormBitmap(
            [a |-> bm.a, b |-> bm.b, c |-> bm.c, d |-> bm.d,
             e |-> bm.e + bm.a * sx + bm.b * sy,
             f |-> bm.f + bm.c * sx + bm.d * sy,
             x0 |-> Max(lox - sx, 0), y0 |-> Max(loy - sy, 0),
             x1 |-> Min(hix - sx, dst.width),
             y1 |-> Min(hiy - sy, dst.height)])]

(***************************************************************************)
(* Layout supplied by the browser: getBoundingClientRect().  The canvas    *)
(* is rendered at its intrinsic size up to maxWidth and scaled down        *)
(* uniformly beyond it.                                                    *)
(***************************************************************************)
Layout == [canvasLeft |-> 12, canvasTop |-> 20,
           containerLeft |-> 4, containerTop |-> 8, maxWidth |-> 100]

CanvasRect(cv) ==
    LET w == Min(cv.width, Layout.maxWidth) IN
    [left |-> Layout.canvasLeft, top |-> Layout.canvasTop,
     width |-> w, height |-> (cv.height * w) \div cv.width]

ContainerRect == [left |-> Layout.containerLeft, top |-> Layout.containerTop]

(***************************************************************************)
(* The editor state as one record, and class CropManager on it.            *)
(***************************************************************************)
Editor ==
    [cropRect |-> cropRect, activeHandle |-> activeHandle,
     isManipulating |-> isManipulating, isDrawing |-> isDrawing,
     isCropDefined |-> isCropDefined, startPointer |-> startPointer,
     startCropRect |-> startCropRect, canvasEl |-> canvasEl,
     cropBoxEl |-> cropBoxEl, containerListeners |-> containerListeners,
     windowListeners |-> windowListeners]

\* The three window-level registrations of a gesture session.
SessionListeners ==
    {<<"pointermove", "onDrawOrManipulateMove">>,
     <<"pointerup", "onDrawOrManipulateEnd">>,
     <<"pointercancel", "onDrawOrManipulateEnd">>}

\* clear() without the removal of the overlay's pointerdown listener.
ClearKeepsOverlayListener(s) ==
    [s EXCEPT !.isCropDefined = FALSE,
              !.isDrawing = FALSE,
              !.isManipulating = FALSE,
              !.activeHandle = Null,
              !.cropBoxEl.hidden = TRUE]

\* clear() without the reset of isDrawing (line 297).
ClearKeepsDrawing(s) ==
    [s EXCEPT !.isCropDefined = FALSE,
              !.isManipulating = FALSE,
              !.activeHandle = Null,
              !.cropBoxEl.hidden = TRUE,
              !.cropBoxEl.listeners = @ \ {<<"pointerdown", "onManipulateStart">>}]

\* clear() leaving the overlay on screen.
ClearKeepsOverlayShown(s) ==
    [s EXCEPT !.isCropDefined = FALSE,
              !.isDrawing = FALSE,
              !.isManipulating = FALSE,
              !.activeHandle = Null,
              !.cropBoxEl.listeners = @ \ {<<"pointerdown", "onManipulateStart">>}]

\* clear()
Clear(s) ==
    [s EXCEPT !.isCropDefined = FALSE,
              !.isDrawing = FALSE,
              !.isManipulating = FALSE,
              !.activeHandle = Null,
              !.cropBoxEl.hidden = TRUE,
              !.cropBoxEl.listeners = @ \ {<<"pointerdown", "onManipulateStart">>}]

\* activate() without the clear() of line 283.
ActivateKeepsRegion(s) ==
    [s EXCEPT !.containerListeners = @ \cup {<<"pointerdown", "onDrawStart">>}]

\* activate()
Activate(s) ==
    [Clear(s) EXCEPT !.containerListeners = @ \cup {<<"pointerdown", "onDrawStart">>}]

\* deactivate() without the removal of the window's listeners.
DeactivateKeepsWindowListeners(s) ==
    [Clear(s) EXCEPT !.containerListeners = @ \ {<<"pointerdown", "onDrawStart">>}]

\* deactivate()
Deactivate(s) ==
    [Clear(s) EXCEPT !.containerListeners = @ \ {<<"pointerdown", "onDrawStart">>},
                     !.windowListeners = @ \ SessionListeners]

\* isCropped()
IsCropped(s) == s.isCropDefined

\* applyCropToCanvas() without its early return.
ApplyCropUnguarded(s) ==
    LET r == s.cropRect
        croppedCanvas ==
            DrawImage(NewCanvas(r.width, r.height), s.canvasEl,
                      r.x, r.y, r.width, r.height)
    IN  [s EXCEPT !.canvasEl =
            DrawImage(NewCanvas(croppedCanvas.width, croppedCanvas.height),
                      croppedCanvas, 0, 0,
                      croppedCanvas.width, croppedCanvas.height)]

\* applyCropToCanvas() copying from the surface's origin.
ApplyCropFromOrigin(s) ==
    IF ~IsCropped(s) THEN s
    ELSE LET r == s.cropRect
             croppedCanvas ==
                 DrawImage(NewCanvas(r.width, r.height), s.canvasEl,
                           0, 0, r.width, r.height)
         IN  [s EXCEPT !.canvasEl =
                 DrawImage(NewCanvas(croppedCanvas.width, croppedCanvas.height),
                           croppedCanvas, 0, 0,
                           croppedCanvas.width, croppedCanvas.height)]

\* applyCropToCanvas()
ApplyCropToCanvas(s) ==
    IF ~IsCropped(s) THEN s
    ELSE LET r == s.cropRect
             croppedCanvas ==
                 DrawImage(NewCanvas(r.width, r.height), s.canvasEl,
                           r.x, r.y, r.width, r.height)
         IN  [s EXCEPT !.canvasEl =
                 DrawImage(NewCanvas(croppedCanvas.width, croppedCanvas.height),
                           croppedCanvas, 0, 0,
                           croppedCanvas.width, croppedCanvas.height)]

\* getNativePointerPosition(e) without the Math.max(0, ...) of lines 334-335.
NativePositionNoLowerClamp(s, e) ==
    LET canvasRect == CanvasRect(s.canvasEl)
        x == ((e.clientX - canvasRect.left) * s.canvasEl.width) \div canvasRect.width
        y == ((e.clientY - canvasRect.top) * s.canvasEl.width) \div canvasRect.width
    IN  [x |-> Min(x, s.canvasEl.width),
         y |-> Min(y, s.canvasEl.height)]

\* getNativePointerPosition(e)
GetNativePointerPosition(s, e) ==
    LET canvasRect == CanvasRect(s.canvasEl)
        x == ((e.clientX - canvasRect.left) * s.canvasEl.width) \div canvasRect.width
        y == ((e.clientY - canvasRect.top) * s.canvasEl.width) \div canvasRect.width
    IN  [x |-> Max(0, Min(x, s.canvasEl.width)),
         y |-> Max(0, Min(y, s.canvasEl.height))]

\* constrainCropBox() with the minimum size enforced before the shrink to
\* the surface bounds.
ConstrainMinSizeFirst(r, cv) ==
    LET r0 == [r EXCEPT !.width = Max(r.width, MinSize),
                        !.height = Max(r.height, MinSize)]
        r1 == IF r0.x < 0 THEN [r0 EXCEPT !.width = r0.width + r0.x, !.x = 0] ELSE r0
        r2 == IF r1.y < 0 THEN [r1 EXCEPT !.height = r1.height + r1.y, !.y = 0] ELSE r1
        r3 == IF r2.x + r2.width > cv.width
              THEN [r2 EXCEPT !.width = cv.width - r2.x] ELSE r2
    IN  IF r3.y + r3.height > cv.height
        THEN [r3 EXCEPT !.height = cv.height - r3.y] ELSE r3

\* constrainCropBox() without the clamp of a negative origin.
ConstrainNoOriginClamp(r, cv) ==
    LET r3 == IF r.x + r.width > cv.width
              THEN [r EXCEPT !.width = cv.width - r.x] ELSE r
        r4 == IF r3.y + r3.height > cv.height
              THEN [r3 EXCEPT !.height = cv.height - r3.y] ELSE r3
    IN  [r4 EXCEPT !.width = Max(r4.width, MinSize),
                   !.height = Max(r4.height, MinSize)]

\* The clamp of a negative origin that keeps the size.
ClampOriginKeepsSize(r) ==
    LET r1 == IF r.x < 0 THEN [r EXCEPT !.x = 0] ELSE r
    IN  IF r1.y < 0 THEN [r1 EXCEPT !.y = 0] ELSE r1

\* The clamp of a negative origin without the x = 0, y = 0 of lines 443, 447.
ClampLeavesOrigin(r) ==
    LET r1 == IF r.x < 0 THEN [r EXCEPT !.width = r.width + r.x] ELSE r
    IN  IF r1.y < 0 THEN [r1 EXCEPT !.height = r1.height + r1.y] ELSE r1

\* constrainCropBox(), lines 441-448: a negative origin is clamped to 0
ClampNegativeOrigin(r) ==
    LET r1 == IF r.x < 0 THEN [r EXCEPT !.width = r.width + r.x, !.x = 0] ELSE r
    IN  IF r1.y < 0 THEN [r1 EXCEPT !.height = r1.height + r1.y, !.y = 0] ELSE r1

\* constrainCropBox(), on the rectangle r over a canvas cv
ConstrainCropBox(r, cv) ==
    LET r2 == ClampNegativeOrigin(r)
        r3 == IF r2.x + r2.width > cv.width
              THEN [r2 EXCEPT !.width = cv.width - r2.x] ELSE r2
        r4 == IF r3.y + r3.height > cv.height
              THEN [r3 EXCEPT !.height = cv.height - r3.y] ELSE r3
    IN  [r4 EXCEPT !.width = Max(r4.width, MinSize),
                   !.height = Max(r4.height, MinSize)]

\* updateStyle() without the canvas's offset inside the container.
UpdateStyleNoOffset(s) ==
    LET canvasRect == CanvasRect(s.canvasEl)
    IN  [s EXCEPT !.cropBoxEl.style =
            [x |-> (s.cropRect.x * canvasRect.width) \div s.canvasEl.width,
             y |-> (s.cropRect.y * canvasRect.width) \div s.canvasEl.width,
             width |-> (s.cropRect.width * canvasRect.width) \div s.canvasEl.width,
             height |-> (s.cropRect.height * canvasRect.width) \div s.canvasEl.width]]

\* updateStyle(): the overlay's transform (relative to the container) and size
UpdateStyle(s) ==
    LET canvasRect == CanvasRect(s.canvasEl)
        canvasOffsetX == canvasRect.left - ContainerRect.left
        canvasOffsetY == canvasRect.top - ContainerRect.top
    IN  [s EXCEPT !.cropBoxEl.style =
            [x |-> canvasOffsetX + (s.cropRect.x * canvasRect.width) \div s.canvasEl.width,
             y |-> canvasOffsetY + (s.cropRect.y * canvasRect.width) \div s.canvasEl.width,
             width |-> (s.cropRect.width * canvasRect.width) \div s.canvasEl.width,
             height |-> (s.cropRect.height * canvasRect.width) \div s.canvasEl.width]]

(***************************************************************************)
(* Pointer events: client coordinates and the element that was hit.        *)
(* target.el is "canvas" (anything in the container outside the overlay),  *)
(* "crop-box" (the overlay body) or "crop-handle" (a child of the overlay  *)
(* with class crop-handle and data-handle = target.handle).                *)
(***************************************************************************)
InCropBox(target) == target.el \in {"crop-box", "crop-handle"}

\* onDrawStart(e) without the clear() of the previous region.
OnDrawStartKeepsRegion(s, e) ==
    IF InCropBox(e.target) THEN s
    ELSE LET p == GetNativePointerPosition(s, e)
         IN  [s EXCEPT !.isDrawing = TRUE,
                       !.startPointer = p,
                       !.cropRect = [x |-> p.x, y |-> p.y, width |-> 0, height |-> 0],
                       !.windowListeners = @ \cup SessionListeners]

\* onDrawStart(e) registering no pointercancel listener.
OnDrawStartNoCancelListener(s, e) ==
    IF InCropBox(e.target) THEN s
    ELSE LET c == Clear(s)
             p == GetNativePointerPosition(c, e)
         IN  [c EXCEPT !.isDrawing = TRUE,
                       !.startPointer = p,
                       !.cropRect = [x |-> p.x, y |-> p.y, width |-> 0, height |-> 0],
                       !.windowListeners =
                           @ \cup {<<"pointermove", "onDrawOrManipulateMove">>,
                                   <<"pointerup", "onDrawOrManipulateEnd">>}]

\* onDrawStart(e)
OnDrawStart(s, e) ==
    IF InCropBox(e.target) THEN s
    ELSE LET c == Clear(s)
             p == GetNativePointerPosition(c, e)
         IN  [c EXCEPT !.isDrawing = TRUE,
                       !.startPointer = p,
                       !.cropRect = [x |-> p.x, y |-> p.y, width |-> 0, height |-> 0],
                       !.windowListeners = @ \cup SessionListeners]

\* onManipulateStart(e) taking every hit for a hit on the overlay body.
OnManipulateStartAlwaysMove(s, e) ==
    [s EXCEPT !.isManipulating = TRUE,
              !.startPointer = GetNativePointerPosition(s, e),
              !.startCropRect = s.cropRect,
              !.activeHandle = "move",
              !.windowListeners = @ \cup SessionListeners]

\* onManipulateStart(e)
OnManipulateStart(s, e) ==
    [s EXCEPT !.isManipulating = TRUE,
              !.startPointer = GetNativePointerPosition(s, e),
              !.startCropRect = s.cropRect,
              !.activeHandle = IF e.target.el = "crop-handle"
                               THEN e.target.handle ELSE "move",
              !.windowListeners = @ \cup SessionListeners]

\* The drawing branch with the threshold reached at a displacement of
\* exactly DrawThreshold.
DrawingMoveInclusive(s, currentPointer) ==
    LET deltaX == currentPointer.x - s.startPointer.x
        deltaY == currentPointer.y - s.startPointer.y
        s1 == IF ~s.isCropDefined
                  /\ (Abs(deltaX) >= DrawThreshold \/ Abs(deltaY) >= DrawThreshold)
              THEN [s EXCEPT !.isCropDefined = TRUE,
                             !.cropBoxEl.hidden = FALSE,
                             !.cropBoxEl.listeners =
                                 @ \cup {<<"pointerdown", "onManipulateStart">>}]
              ELSE s
    IN  IF s1.isCropDefined
        THEN [s1 EXCEPT !.cropRect =
                 [x |-> IF deltaX > 0 THEN s.startPointer.x ELSE currentPointer.x,
                  y |-> IF deltaY > 0 THEN s.startPointer.y ELSE currentPointer.y,
                  width |-> Abs(deltaX),
                  height |-> Abs(deltaY)]]
        ELSE s1

\* The drawing branch deciding on every move whether the region is defined.
DrawingMoveRechecks(s, currentPointer) ==
    LET deltaX == currentPointer.x - s.startPointer.x
        deltaY == currentPointer.y - s.startPointer.y
        s1 == IF Abs(deltaX) > DrawThreshold \/ Abs(deltaY) > DrawThreshold
              THEN [s EXCEPT !.isCropDefined = TRUE,
                             !.cropBoxEl.hidden = FALSE,
                             !.cropBoxEl.listeners =
                                 @ \cup {<<"pointerdown", "onManipulateStart">>}]
              ELSE [s EXCEPT !.isCropDefined = FALSE,
                             !.cropBoxEl.hidden = TRUE]
    IN  IF s1.isCropDefined
        THEN [s1 EXCEPT !.cropRect =
                 [x |-> IF deltaX > 0 THEN s.startPointer.x ELSE currentPointer.x,
                  y |-> IF deltaY > 0 THEN s.startPointer.y ELSE currentPointer.y,
                  width |-> Abs(deltaX),
                  height |-> Abs(deltaY)]]
        ELSE s1

\* The drawing branch with the region's origin always at the anchor.
DrawingMoveAnchorOrigin(s, currentPointer) ==
    LET deltaX == currentPointer.x - s.startPointer.x
        deltaY == currentPointer.y - s.startPointer.y
        s1 == IF ~s.isCropDefined
                  /\ (Abs(deltaX) > DrawThreshold \/ Abs(deltaY) > DrawThreshold)
              THEN [s EXCEPT !.isCropDefined = TRUE,
                             !.cropBoxEl.hidden = FALSE,
                             !.cropBoxEl.listeners =
                                 @ \cup {<<"pointerdown", "onManipulateStart">>}]
              ELSE s
    IN  IF s1.isCropDefined
        THEN [s1 EXCEPT !.cropRect =
                 [x |-> s.startPointer.x,
                  y |-> s.startPointer.y,
                  width |-> Abs(deltaX),
                  height |-> Abs(deltaY)]]
        ELSE s1

\* onDrawOrManipulateMove(e), lines 376-391: the drawing branch
DrawingMove(s, currentPointer) ==
    LET deltaX == currentPointer.x - s.startPointer.x
        deltaY == currentPointer.y - s.startPointer.y
        s1 == IF ~s.isCropDefined
                  /\ (Abs(deltaX) > DrawThreshold \/ Abs(deltaY) > DrawThreshold)
              THEN [s EXCEPT !.isCropDefined = TRUE,
                             !.cropBoxEl.hidden = FALSE,
                             !.cropBoxEl.listeners =
                                 @ \cup {<<"pointerdown", "onManipulateStart">>}]
              ELSE s
    IN  IF s1.isCropDefined
        THEN [s1 EXCEPT !.cropRect =
                 [x |-> IF deltaX > 0 THEN s.startPointer.x ELSE currentPointer.x,
                  y |-> IF deltaY > 0 THEN s.startPointer.y ELSE currentPointer.y,
                  width |-> Abs(deltaX),
                  height |-> Abs(deltaY)]]
        ELSE s1

\* The move handle with the delta applied to the current region instead of
\* the anchor region.
MoveRuleCompounding(s, nativeDx, nativeDy) ==
    LET newX == s.cropRect.x + nativeDx
        newY == s.cropRect.y + nativeDy
    IN  [s EXCEPT
            !.cropRect.x = Max(0, Min(newX, s.canvasEl.width - s.cropRect.width)),
            !.cropRect.y = Max(0, Min(newY, s.canvasEl.height - s.cropRect.height))]

\* onDrawOrManipulateMove(e), lines 396-400: the move handle
MoveRule(s, nativeDx, nativeDy) ==
    LET newX == s.startCropRect.x + nativeDx
        newY == s.startCropRect.y + nativeDy
    IN  [s EXCEPT
            !.cropRect.x = Max(0, Min(newX, s.canvasEl.width - s.cropRect.width)),
            !.cropRect.y = Max(0, Min(newY, s.canvasEl.height - s.cropRect.height))]

\* Handles containing e, w with the delta added to the region of the
\* previous pointermove.
ResizeHorizontalIncremental(s, nativeDx) ==
    LET s1 == IF Includes(s.activeHandle, "e")
              THEN [s EXCEPT !.cropRect.width = s.cropRect.width + nativeDx]
              ELSE s
    IN  IF Includes(s.activeHandle, "w")
        THEN [s1 EXCEPT !.cropRect.width = s.cropRect.width - nativeDx,
                        !.cropRect.x = s.cropRect.x + nativeDx]
        ELSE s1

\* onDrawOrManipulateMove(e), lines 402-406: handles containing e, w
ResizeHorizontal(s, nativeDx) ==
    LET s1 == IF Includes(s.activeHandle, "e")
              THEN [s EXCEPT !.cropRect.width = s.startCropRect.width + nativeDx]
              ELSE s
    IN  IF Includes(s.activeHandle, "w")
        THEN [s1 EXCEPT !.cropRect.width = s.startCropRect.width - nativeDx,
                        !.cropRect.x = s.startCropRect.x + nativeDx]
        ELSE s1

\* onDrawOrManipulateMove(e), lines 407-411: handles containing s, n
ResizeVertical(s, nativeDy) ==
    LET s1 == IF Includes(s.activeHandle, "s")
              THEN [s EXCEPT !.cropRect.height = s.startCropRect.height + nativeDy]
              ELSE s
    IN  IF Includes(s.activeHandle, "n")
        THEN [s1 EXCEPT !.cropRect.height = s.startCropRect.height - nativeDy,
                        !.cropRect.y = s.startCropRect.y + nativeDy]
        ELSE s1

\* onDrawOrManipulateMove(e), lines 392-413: the manipulating branch
ManipulatingMove(s, currentPointer) ==
    LET nativeDx == currentPointer.x - s.startPointer.x
        nativeDy == currentPointer.y - s.startPointer.y
    IN  IF s.activeHandle = "move" THEN MoveRule(s, nativeDx, nativeDy)
        ELSE IF s.activeHandle # Null /\ s.activeHandle # ""
             THEN ResizeVertical(ResizeHorizontal(s, nativeDx), nativeDy)
             ELSE s

\* onDrawOrManipulateMove(e) where startCropRect is the region object itself
\* (this.startCropRect = this.cropRect) and so follows every mutation of it.
OnDrawOrManipulateMoveAliased(s, e) ==
    LET currentPointer == GetNativePointerPosition(s, e)
        s1 == IF s.isDrawing THEN DrawingMove(s, currentPointer)
              ELSE IF s.isManipulating THEN ManipulatingMove(s, currentPointer)
              ELSE s
        s2 == IF s1.isCropDefined
              THEN UpdateStyle([s1 EXCEPT !.cropRect =
                                   ConstrainCropBox(s1.cropRect, s1.canvasEl)])
              ELSE s1
    IN  IF s.isManipulating THEN [s2 EXCEPT !.startCropRect = s2.cropRect] ELSE s2

\* onDrawOrManipulateMove(e)
OnDrawOrManipulateMove(s, e) ==
    LET currentPointer == GetNativePointerPosition(s, e)
        s1 == IF s.isDrawing THEN DrawingMove(s, currentPointer)
              ELSE IF s.isManipulating THEN ManipulatingMove(s, currentPointer)
              ELSE s
    IN  IF s1.isCropDefined
        THEN UpdateStyle([s1 EXCEPT !.cropRect = ConstrainCropBox(s1.cropRect, s1.canvasEl)])
        ELSE s1

\* onDrawOrManipulateEnd(e) leaving the pointercancel registration behind.
EndKeepsCancelListener(s) ==
    LET s1 == IF s.isDrawing /\ ~s.isCropDefined THEN Clear(s) ELSE s
    IN  [s1 EXCEPT !.isDrawing = FALSE,
                   !.isManipulating = FALSE,
                   !.activeHandle = Null,
                   !.windowListeners =
                       @ \ {<<"pointermove", "onDrawOrManipulateMove">>,
                            <<"pointerup", "onDrawOrManipulateEnd">>}]

\* onDrawOrManipulateEnd(e) discarding the region of every drawing session.
EndClearsEveryDrawing(s) ==
    LET s1 == IF s.isDrawing THEN Clear(s) ELSE s
    IN  [s1 EXCEPT !.isDrawing = FALSE,
                   !.isManipulating = FALSE,
                   !.activeHandle = Null,
                   !.windowListeners = @ \ SessionListeners]

\* onDrawOrManipulateEnd(e) leaving the handle of the session behind.
EndKeepsActiveHandle(s) ==
    LET s1 == IF s.isDrawing /\ ~s.isCropDefined THEN Clear(s) ELSE s
    IN  [s1 EXCEPT !.isDrawing = FALSE,
                   !.isManipulating = FALSE,
                   !.windowListeners = @ \ SessionListeners]

\* onDrawOrManipulateEnd(e)
OnDrawOrManipulateEnd(s) ==
    LET s1 == IF s.isDrawing /\ ~s.isCropDefined THEN Clear(s) ELSE s
    IN  [s1 EXCEPT !.isDrawing = FALSE,
                   !.isManipulating = FALSE,
                   !.activeHandle = Null,
                   !.windowListeners = @ \ SessionListeners]

(***************************************************************************)
(* Event dispatch: a handler runs only while it is registered on the       *)
(* element the event reaches (addEventListener / removeEventListener); an  *)
(* event that reaches no registered handler leaves the editor as it is.    *)
(***************************************************************************)
\* pointerdown: the overlay's listener stops the propagation, otherwise the
\* event bubbles to the container's listener
DispatchPointerDown(s, e) ==
    IF InCropBox(e.target) /\ <<"pointerdown", "onManipulateStart">> \in s.cropBoxEl.listeners
    THEN OnManipulateStart(s, e)
    ELSE IF <<"pointerdown", "onDrawStart">> \in s.containerListeners
         THEN OnDrawStart(s, e)
         ELSE s

\* pointermove on the window
DispatchPointerMove(s, e) ==
    IF <<"pointermove", "onDrawOrManipulateMove">> \in s.windowListeners
    THEN OnDrawOrManipulateMove(s, e)
    ELSE s

\* pointerup on the window
DispatchPointerUp(s) ==
    IF <<"pointerup", "onDrawOrManipulateEnd">> \in s.windowListeners
    THEN OnDrawOrManipulateEnd(s)
    ELSE s

\* pointercancel on the window
DispatchPointerCancel(s) ==
    IF <<"pointercancel", "onDrawOrManipulateEnd">> \in s.windowListeners
    THEN OnDrawOrManipulateEnd(s)
    ELSE s

(***************************************************************************)
(* class App: the handlers that reach the editor.                          *)
(***************************************************************************)
\* rotatePreviewImage(), lines 566-586: the canvas turned a quarter turn
\* counter-clockwise; canvas pixel (X, Y) shows the old pixel (tw-1-Y, X).
RotateCanvas(cv) ==
    LET bm == cv.bitmap
        tw == cv.width
        x0 == Max(bm.x0, 0)
        x1 == Min(bm.x1, cv.width)
    IN  [width |-> cv.height, height |-> cv.width,
         bitmap |-> NormBitmap(
            [a |-> bm.b, b |-> -bm.a, e |-> bm.a * (tw - 1) + bm.e,
             c |-> bm.d, d |-> -bm.c, f |-> bm.c * (tw - 1) + bm.f,
             x0 |-> bm.y0, x1 |-> bm.y1,
             y0 |-> tw - x1, y1 |-> tw - x0])]

\* rotatePreviewImage() without the final cropper.clear().
RotateKeepsRegion(s) == [s EXCEPT !.canvasEl = RotateCanvas(s.canvasEl)]

\* rotatePreviewImage()
RotatePreviewImageOn(s) == Clear([s EXCEPT !.canvasEl = RotateCanvas(s.canvasEl)])

\* CameraManager.capturePhoto() then CropManager.activate(), lines 591-596
CapturePhotoOn(s, video) ==
    Activate([s EXCEPT !.canvasEl =
        [width |-> video.videoWidth, height |-> video.videoHeight,
         bitmap |-> FrameBitmap(video.videoWidth, video.videoHeight)]])

\* confirmPhoto() without the deactivate() of line 602.
ConfirmKeepsEditor(s) == IF IsCropped(s) THEN ApplyCropToCanvas(s) ELSE s

\* confirmPhoto(), lines 598-602
ConfirmPhotoOn(s) ==
    Deactivate(IF IsCropped(s) THEN ApplyCropToCanvas(s) ELSE s)

(***************************************************************************)
(* Inputs: the camera frames, the pointer positions (client coordinates)   *)
(* and the hit targets the browser delivers.                               *)
(***************************************************************************)
\* The number of handlers one behaviour runs.
MaxSteps == 6

Videos == {[videoWidth |-> 200, videoHeight |-> 200],
           [videoWidth |-> 100, videoHeight |-> 100],
           [videoWidth |-> 40, videoHeight |-> 50]}

\* Offsets from the canvas's rendered top-left corner; the last one lies
\* to the right of the rendered box.
ClientPoints ==
    {[clientX |-> Layout.canvasLeft + p[1], clientY |-> Layout.canvasTop + p[2]] :
        p \in {<<0, 0>>, <<5, 5>>, <<30, 30>>, <<40, 40>>, <<35, 10>>,
               <<120, 10>>}}

Handles == {"n", "s", "e", "w", "ne", "nw", "se", "sw"}

CanvasTarget == [el |-> "canvas", handle |-> Null]

OverlayTargets ==
    {[el |-> "crop-box", handle |-> Null]}
        \cup {[el |-> "crop-handle", handle |-> h] : h \in Handles}

\* How far inside the region's edge the pointer grabs the overlay, in
\* surface pixels.
GrabOffsets == {10}

\* Where the pointer is when it hits the overlay: a handle is hit on the
\* edges of the region it names, the body near the region's top-left corner,
\* each g surface pixels inside the region.  The client position is the
\* display position of that surface point.
HitPoint(s, t, g) ==
    LET r == s.cropRect
        canvasRect == CanvasRect(s.canvasEl)
        hx == IF t.el = "crop-handle" /\ Includes(t.handle, "e")
              THEN r.x + r.width - g ELSE r.x + g
        hy == IF t.el = "crop-handle" /\ Includes(t.handle, "s")
              THEN r.y + r.height - g ELSE r.y + g
    IN  [clientX |-> canvasRect.left + (hx * canvasRect.width) \div s.canvasEl.width,
         clientY |-> canvasRect.top + (hy * canvasRect.width) \div s.canvasEl.width]

(***************************************************************************)
(* The second app variant's class CropManager (lines 1090-1302), on a      *)
(* record of its own fields.  The browser (canvas, layout, events) is the  *)
(* one of the first variant.                                               *)
(***************************************************************************)
MinSize2 == 30

DrawThreshold2 == 5

\* The second variant's fields after construction (lines 1091-1105)
Constructed2(cv) ==
    [cropRect |-> [x |-> 0, y |-> 0, width |-> 0, height |-> 0],
     activeHandle |-> Null,
     isManipulating |-> FALSE, isDrawing |-> FALSE, isCropDefined |-> FALSE,
     startPointer |-> [x |-> 0, y |-> 0],
     startCropRect |-> [x |-> 0, y |-> 0, width |-> 0, height |-> 0],
     canvasEl |-> cv,
     cropBoxEl |-> [hidden |-> TRUE,
                    style |-> [x |-> 0, y |-> 0, width |-> 0, height |-> 0],
                    listeners |-> {}],
     containerListeners |-> {}, windowListeners |-> {}]

\* The second variant's clear() without the reset of activeHandle.
Clear2KeepsHandle(s) ==
    [s EXCEPT !.isCropDefined = FALSE,
              !.isDrawing = FALSE,
              !.isManipulating = FALSE,
              !.cropBoxEl.hidden = TRUE,
              !.cropBoxEl.listeners = @ \ {<<"pointerdown", "onManipulateStart">>}]

\* clear()
Clear2(s) ==
    [s EXCEPT !.isCropDefined = FALSE,
              !.isDrawing = FALSE,
              !.isManipulating = FALSE,
              !.activeHandle = Null,
              !.cropBoxEl.hidden = TRUE,
              !.cropBoxEl.listeners = @ \ {<<"pointerdown", "onManipulateStart">>}]

\* activate()
Activate2(s) ==
    [Clear2(s) EXCEPT !.containerListeners = @ \cup {<<"pointerdown", "onDrawStart">>}]

\* deactivate()
Deactivate2(s) ==
    [Clear2(s) EXCEPT !.containerListeners = @ \ {<<"pointerdown", "onDrawStart">>},
                     !.windowListeners = @ \ SessionListeners]

\* isCropped()
IsCropped2(s) == s.isCropDefined

\* applyCropToCanvas()
ApplyCropToCanvas2(s) ==
    IF ~IsCropped2(s) THEN s
    ELSE LET r == s.cropRect
             croppedCanvas ==
                 DrawImage(NewCanvas(r.width, r.height), s.canvasEl,
                           r.x, r.y, r.width, r.height)
         IN  [s EXCEPT !.canvasEl =
                 DrawImage(NewCanvas(croppedCanvas.width, croppedCanvas.height),
                           croppedCanvas, 0, 0,
                           croppedCanvas.width, croppedCanvas.height)]

\* getNativePointerPosition(e)
GetNativePointerPosition2(s, e) ==
    LET canvasRect == CanvasRect(s.canvasEl)
        x == ((e.clientX - canvasRect.left) * s.canvasEl.width) \div canvasRect.width
        y == ((e.clientY - canvasRect.top) * s.canvasEl.width) \div canvasRect.width
    IN  [x |-> Max(0, Min(x, s.canvasEl.width)),
         y |-> Max(0, Min(y, s.canvasEl.height))]

\* constrainCropBox(), lines 1266-1273: a negative origin is clamped to 0
ClampNegativeOrigin2(r) ==
    LET r1 == IF r.x < 0 THEN [r EXCEPT !.width = r.width + r.x, !.x = 0] ELSE r
    IN  IF r1.y < 0 THEN [r1 EXCEPT !.height = r1.height + r1.y, !.y = 0] ELSE r1

\* constrainCropBox(), on the rectangle r over a canvas cv
ConstrainCropBox2(r, cv) ==
    LET r2 == ClampNegativeOrigin2(r)
        r3 == IF r2.x + r2.width > cv.width
              THEN [r2 EXCEPT !.width = cv.width - r2.x] ELSE r2
        r4 == IF r3.y + r3.height > cv.height
              THEN [r3 EXCEPT !.height = cv.height - r3.y] ELSE r3
    IN  [r4 EXCEPT !.width = Max(r4.width, MinSize2),
                   !.height = Max(r4.height, MinSize2)]

\* updateStyle(): the overlay's transform (relative to the container) and size
UpdateStyle2(s) ==
    LET canvasRect == CanvasRect(s.canvasEl)
        canvasOffsetX == canvasRect.left - ContainerRect.left
        canvasOffsetY == canvasRect.top - ContainerRect.top
    IN  [s EXCEPT !.cropBoxEl.style =
            [x |-> canvasOffsetX + (s.cropRect.x * canvasRect.width) \div s.canvasEl.width,
             y |-> canvasOffsetY + (s.cropRect.y * canvasRect.width) \div s.canvasEl.width,
             width |-> (s.cropRect.width * canvasRect.width) \div s.canvasEl.width,
             height |-> (s.cropRect.height * canvasRect.width) \div s.canvasEl.width]]

\* onDrawStart(e)
OnDrawStart2(s, e) ==
    IF InCropBox(e.target) THEN s
    ELSE LET c == Clear2(s)
             p == GetNativePointerPosition2(c, e)
         IN  [c EXCEPT !.isDrawing = TRUE,
                       !.startPointer = p,
                       !.cropRect = [x |-> p.x, y |-> p.y, width |-> 0, height |-> 0],
                       !.windowListeners = @ \cup SessionListeners]

\* onManipulateStart(e)
OnManipulateStart2(s, e) ==
    [s EXCEPT !.isManipulating = TRUE,
              !.startPointer = GetNativePointerPosition2(s, e),
              !.startCropRect = s.cropRect,
              !.activeHandle = IF e.target.el = "crop-handle"
                               THEN e.target.handle ELSE "move",
              !.windowListeners = @ \cup SessionListeners]

\* onDrawOrManipulateMove(e), lines 1201-1216: the drawing branch
DrawingMove2(s, currentPointer) ==
    LET deltaX == currentPointer.x - s.startPointer.x
        deltaY == currentPointer.y - s.startPointer.y
        s1 == IF ~s.isCropDefined
                  /\ (Abs(deltaX) > DrawThreshold2 \/ Abs(deltaY) > DrawThreshold2)
              THEN [s EXCEPT !.isCropDefined = TRUE,
                             !.cropBoxEl.hidden = FALSE,
                             !.cropBoxEl.listeners =
                                 @ \cup {<<"pointerdown", "onManipulateStart">>}]
              ELSE s
    IN  IF s1.isCropDefined
        THEN [s1 EXCEPT !.cropRect =
                 [x |-> IF deltaX > 0 THEN s.startPointer.x ELSE currentPointer.x,
                  y |-> IF deltaY > 0 THEN s.startPointer.y ELSE currentPointer.y,
                  width |-> Abs(deltaX),
                  height |-> Abs(deltaY)]]
        ELSE s1

\* onDrawOrManipulateMove(e), lines 1221-1225: the move handle
MoveRule2(s, nativeDx, nativeDy) ==
    LET newX == s.startCropRect.x + nativeDx
        newY == s.startCropRect.y + nativeDy
    IN  [s EXCEPT
            !.cropRect.x = Max(0, Min(newX, s.canvasEl.width - s.cropRect.width)),
            !.cropRect.y = Max(0, Min(newY, s.canvasEl.height - s.cropRect.height))]

\* onDrawOrManipulateMove(e), lines 1227-1231: handles containing e, w
ResizeHorizontal2(s, nativeDx) ==
    LET s1 == IF Includes(s.activeHandle, "e")
              THEN [s EXCEPT !.cropRect.width = s.startCropRect.width + nativeDx]
              ELSE s
    IN  IF Includes(s.activeHandle, "w")
        THEN [s1 EXCEPT !.cropRect.width = s.startCropRect.width - nativeDx,
                        !.cropRect.x = s.startCropRect.x + nativeDx]
        ELSE s1

\* onDrawOrManipulateMove(e), lines 1232-1236: handles containing s, n
ResizeVertical2(s, nativeDy) ==
    LET s1 == IF Includes(s.activeHandle, "s")
              THEN [s EXCEPT !.cropRect.height = s.startCropRect.height + nativeDy]
              ELSE s
    IN  IF Includes(s.activeHandle, "n")
        THEN [s1 EXCEPT !.cropRect.height = s.startCropRect.height - nativeDy,
                        !.cropRect.y = s.startCropRect.y + nativeDy]
        ELSE s1

\* onDrawOrManipulateMove(e), lines 1217-1238: the manipulating branch
ManipulatingMove2(s, currentPointer) ==
    LET nativeDx == currentPointer.x - s.startPointer.x
        nativeDy == currentPointer.y - s.startPointer.y
    IN  IF s.activeHandle = "move" THEN MoveRule2(s, nativeDx, nativeDy)
        ELSE IF s.activeHandle # Null /\ s.activeHandle # ""
             THEN ResizeVertical2(ResizeHorizontal2(s, nativeDx), nativeDy)
             ELSE s

\* onDrawOrManipulateMove(e)
OnDrawOrManipulateMove2(s, e) ==
    LET currentPointer == GetNativePointerPosition2(s, e)
        s1 == IF s.isDrawing THEN DrawingMove2(s, currentPointer)
              ELSE IF s.isManipulating THEN ManipulatingMove2(s, currentPointer)
              ELSE s
    IN  IF s1.isCropDefined
        THEN UpdateStyle2([s1 EXCEPT !.cropRect = ConstrainCropBox2(s1.cropRect, s1.canvasEl)])
        ELSE s1

\* onDrawOrManipulateEnd(e)
OnDrawOrManipulateEnd2(s) ==
    LET s1 == IF s.isDrawing /\ ~s.isCropDefined THEN Clear2(s) ELSE s
    IN  [s1 EXCEPT !.isDrawing = FALSE,
                   !.isManipulating = FALSE,
                   !.activeHandle = Null,
                   !.windowListeners = @ \ SessionListeners]

\* pointerdown: the overlay's listener stops the propagation, otherwise the
\* event bubbles to the container's listener
DispatchPointerDown2(s, e) ==
    IF InCropBox(e.target) /\ <<"pointerdown", "onManipulateStart">> \in s.cropBoxEl.listeners
    THEN OnManipulateStart2(s, e)
    ELSE IF <<"pointerdown", "onDrawStart">> \in s.containerListeners
         THEN OnDrawStart2(s, e)
         ELSE s

\* pointermove on the window
DispatchPointerMove2(s, e) ==
    IF <<"pointermove", "onDrawOrManipulateMove">> \in s.windowListeners
    THEN OnDrawOrManipulateMove2(s, e)
    ELSE s

\* pointerup on the window
DispatchPointerUp2(s) ==
    IF <<"pointerup", "onDrawOrManipulateEnd">> \in s.windowListeners
    THEN OnDrawOrManipulateEnd2(s)
    ELSE s

\* pointercancel on the window
DispatchPointerCancel2(s) ==
    IF <<"pointercancel", "onDrawOrManipulateEnd">> \in s.windowListeners
    THEN OnDrawOrManipulateEnd2(s)
    ELSE s

(***************************************************************************)
(* Actions.                                                                *)
(***************************************************************************)
\* The state after a handler ran in both variants: the editor record s, the
\* second variant's record s2, the visible view v.
BecomesBoth(s, s2, v, op) ==
    /\ steps < MaxSteps
    /\ steps' = steps + 1
    /\ lastOp' = op
    /\ view' = v
    /\ cropRect' = s.cropRect
    /\ activeHandle' = s.activeHandle
    /\ isManipulating' = s.isManipulating
    /\ isDrawing' = s.isDrawing
    /\ isCropDefined' = s.isCropDefined
    /\ startPointer' = s.startPointer
    /\ startCropRect' = s.startCropRect
    /\ canvasEl' = s.canvasEl
    /\ cropBoxEl' = s.cropBoxEl
    /\ containerListeners' = s.containerListeners
    /\ windowListeners' = s.windowListeners
    /\ twin' = s2

\* The state after a handler of the first variant: the editor record s, the
\* visible view v.
Becomes(s, v, op) == BecomesBoth(s, twin, v, op)

ZeroRect == [x |-> 0, y |-> 0, width |-> 0, height |-> 0]

\* new CropManager(cropBoxEl, canvasEl): the field initialisers, lines 266-273
Constructed(cv) ==
    [cropRect |-> ZeroRect, activeHandle |-> Null,
     isManipulating |-> FALSE, isDrawing |-> FALSE, isCropDefined |-> FALSE,
     startPointer |-> [x |-> 0, y |-> 0], startCropRect |-> ZeroRect,
     canvasEl |-> cv,
     cropBoxEl |-> [hidden |-> TRUE, style |-> ZeroRect, listeners |-> {}],
     containerListeners |-> {}, windowListeners |-> {}]

\* The state s, in view v, before any handler ran.
Starts(s, v, op) ==
    /\ cropRect = s.cropRect
    /\ activeHandle = s.activeHandle
    /\ isManipulating = s.isManipulating
    /\ isDrawing = s.isDrawing
    /\ isCropDefined = s.isCropDefined
    /\ startPointer = s.startPointer
    /\ startCropRect = s.startCropRect
    /\ canvasEl = s.canvasEl
    /\ cropBoxEl = s.cropBoxEl
    /\ containerListeners = s.containerListeners
    /\ windowListeners = s.windowListeners
    /\ view = v
    /\ lastOp = op
    /\ steps = 0
    /\ twin = Constructed2(s.canvasEl)

\* new App(elements); app.start() with the camera available: the editor is
\* deactivated over the page's canvas and the camera view is shown
Init == Starts(Deactivate(Constructed(NewCanvas(300, 150))), "camera-view", "start")

\* pointerdown inside the canvas container, outside of the overlay
PointerDownCanvasAt(p) ==
    /\ view = "preview-view"
    /\ <<"pointerdown", "onDrawStart">> \in containerListeners
    /\ Becomes(OnDrawStart(Editor, [clientX |-> p.clientX, clientY |-> p.clientY,
                                    target |-> CanvasTarget]),
               view, "onDrawStart")

PointerDownCanvas == \E p \in ClientPoints : PointerDownCanvasAt(p)

\* pointerdown on the visible overlay: its own listener runs and stops the
\* propagation; without one the event bubbles to the container's listener
PointerDownOverlayAt(t, g) ==
    /\ view = "preview-view"
    /\ ~cropBoxEl.hidden
    /\ LET p == HitPoint(Editor, t, g)
           e == [clientX |-> p.clientX, clientY |-> p.clientY, target |-> t]
       IN  IF <<"pointerdown", "onManipulateStart">> \in cropBoxEl.listeners
           THEN Becomes(OnManipulateStart(Editor, e), view, "onManipulateStart")
           ELSE /\ <<"pointerdown", "onDrawStart">> \in containerListeners
                /\ Becomes(OnDrawStart(Editor, e), view, "onDrawStart")

PointerDownOverlay ==
    \E t \in OverlayTargets, g \in GrabOffsets : PointerDownOverlayAt(t, g)

\* pointermove at the client position p: the window's listener
PointerMoveAt(p) ==
    /\ <<"pointermove", "onDrawOrManipulateMove">> \in windowListeners
    /\ Becomes(OnDrawOrManipulateMove(Editor, [clientX |-> p.clientX,
                                               clientY |-> p.clientY,
                                               target |-> CanvasTarget]),
               view, "onDrawOrManipulateMove")

\* pointermove anywhere
PointerMove == \E p \in ClientPoints : PointerMoveAt(p)

\* pointerup anywhere: the window's listener
PointerUp ==
    /\ <<"pointerup", "onDrawOrManipulateEnd">> \in windowListeners
    /\ Becomes(OnDrawOrManipulateEnd(Editor), view, "pointerup")

\* pointercancel anywhere: the window's listener
PointerCancel ==
    /\ <<"pointercancel", "onDrawOrManipulateEnd">> \in windowListeners
    /\ Becomes(OnDrawOrManipulateEnd(Editor), view, "pointercancel")

\* App.start() with the camera available: retake (preview view) or start
\* over (result view)
Start ==
    /\ view \in {"preview-view", "result-view"}
    /\ Becomes(Deactivate(Editor), "camera-view", "start")

\* App.capturePhoto(): the capture button of the camera view
CapturePhoto ==
    /\ view = "camera-view"
    /\ \E video \in Videos :
        Becomes(CapturePhotoOn(Editor, video), "preview-view", "capturePhoto")

\* App.rotatePreviewImage(): the rotate button of the preview view
RotatePreviewImage ==
    /\ view = "preview-view"
    /\ Becomes(RotatePreviewImageOn(Editor), view, "rotatePreviewImage")

\* App.confirmPhoto(): the confirm button of the preview view
ConfirmPhoto ==
    /\ view = "preview-view"
    /\ Becomes(ConfirmPhotoOn(Editor), "result-view", "confirmPhoto")

\* The host calls a public method of the editor directly (section 6 of the
\* specification: activate, deactivate, clear, commit).
CallActivate == Becomes(Activate(Editor), view, "activate")

CallDeactivate == Becomes(Deactivate(Editor), view, "deactivate")

CallClear == Becomes(Clear(Editor), view, "clear")

CallApplyCropToCanvas == Becomes(ApplyCropToCanvas(Editor), view, "applyCropToCanvas")

Next ==
    \/ PointerDownCanvas
    \/ PointerDownOverlay
    \/ PointerMove
    \/ PointerUp
    \/ PointerCancel
    \/ Start
    \/ CapturePhoto
    \/ RotatePreviewImage
    \/ ConfirmPhoto

Spec == Init /\ [][Next]_vars

\* The editor constructed over a canvas that holds a camera frame, shown in
\* the preview view and not yet activated.
InitApi ==
    \E video \in {v \in Videos : v.videoWidth <= Layout.maxWidth} :
        Starts(Constructed([width |-> video.videoWidth, height |-> video.videoHeight,
                            bitmap |-> FrameBitmap(video.videoWidth, video.videoHeight)]),
               "preview-view", "constructor")

NextApi ==
    \/ PointerDownCanvas
    \/ PointerDownOverlay
    \/ PointerMove
    \/ PointerUp
    \/ PointerCancel
    \/ CallActivate
    \/ CallDeactivate
    \/ CallClear
    \/ CallApplyCropToCanvas

\* The editor driven through its public interface by any host.
SpecApi == InitApi /\ [][NextApi]_vars

\* A pointerup or pointercancel that arrives after the last input the
\* model enumerates: the window's listener
LateEnd(op) ==
    /\ steps = MaxSteps
    /\ <<op, "onDrawOrManipulateEnd">> \in windowListeners
    /\ LET s == OnDrawOrManipulateEnd(Editor)
       IN  /\ cropRect' = s.cropRect
           /\ activeHandle' = s.activeHandle
           /\ isManipulating' = s.isManipulating
           /\ isDrawing' = s.isDrawing
           /\ isCropDefined' = s.isCropDefined
           /\ startPointer' = s.startPointer
           /\ startCropRect' = s.startCropRect
           /\ canvasEl' = s.canvasEl
           /\ cropBoxEl' = s.cropBoxEl
           /\ containerListeners' = s.containerListeners
           /\ windowListeners' = s.windowListeners
    /\ lastOp' = op
    /\ UNCHANGED <<view, steps, twin>>

LatePointerUp == LateEnd("pointerup")

LatePointerCancel == LateEnd("pointercancel")

\* A pointerup or pointercancel is delivered
EndGesture == PointerUp \/ PointerCancel \/ LatePointerUp \/ LatePointerCancel

NextLive ==
    \/ Next
    \/ LatePointerUp
    \/ LatePointerCancel

\* The program where every pointerdown is eventually followed by a pointerup
\* or a pointercancel.
SpecLive == Init /\ [][NextLive]_vars /\ WF_vars(EndGesture)

\* The coordinate mappings probed on their own: an activated editor over a
\* frame, one pointerdown on the rendered canvas (edges included), then its
\* release.  The mappings act on each axis separately, so the probes are
\* every column of the rendered box on its top, middle and bottom rows and
\* every row on its left, middle and right columns.
BoxPoints(cv) ==
    LET r == CanvasRect(cv)
    IN  {[clientX |-> r.left + i, clientY |-> r.top + j] :
            i \in 0..r.width, j \in {0, r.height \div 2, r.height}}
        \cup
        {[clientX |-> r.left + i, clientY |-> r.top + j] :
            i \in {0, r.width \div 2, r.width}, j \in 0..r.height}

InitMap ==
    \E video \in Videos :
        Starts(Activate(Constructed([width |-> video.videoWidth,
                                     height |-> video.videoHeight,
                                     bitmap |-> FrameBitmap(video.videoWidth,
                                                            video.videoHeight)])),
               "preview-view", "activate")

MapPointerDownAt(p) ==
    /\ steps = 0
    /\ PointerDownCanvasAt(p)

MapPointerDown == \E p \in BoxPoints(canvasEl) : MapPointerDownAt(p)

NextMap ==
    \/ MapPointerDown
    \/ PointerUp
    \/ PointerCancel

SpecMap == InitMap /\ [][NextMap]_vars

(***************************************************************************)
(* The overlay with handle elements whose data-handle attribute is not one *)
(* of the eight compass names: absent (dataset.handle is undefined),       *)
(* empty, "x", "left".                                                     *)
(***************************************************************************)
MalformedTargets ==
    {[el |-> "crop-handle", handle |-> h] : h \in {Null, "", "x", "left"}}

\* pointerdown on such a handle element, g pixels inside the region's
\* top-left corner
PointerDownMalformedAt(t, g) ==
    /\ view = "preview-view"
    /\ ~cropBoxEl.hidden
    /\ <<"pointerdown", "onManipulateStart">> \in cropBoxEl.listeners
    /\ LET p == HitPoint(Editor, [el |-> "crop-box", handle |-> Null], g)
           e == [clientX |-> p.clientX, clientY |-> p.clientY, target |-> t]
       IN  Becomes(OnManipulateStart(Editor, e), view, "onManipulateStart")

PointerDownMalformed ==
    \E t \in MalformedTargets, g \in GrabOffsets : PointerDownMalformedAt(t, g)

NextHandles == Next \/ PointerDownMalformed

SpecHandles == Init /\ [][NextHandles]_vars

(***************************************************************************)
(* Pointer events around the rendered canvas: at its centre and beyond     *)
(* three of its corners.  The container is wider and taller than the       *)
(* canvas, and the window's listeners see every position.                  *)
(***************************************************************************)
AroundPoints(cv) ==
    LET r == CanvasRect(cv)
        west == Layout.containerLeft - Layout.canvasLeft
        north == Layout.containerTop - Layout.canvasTop
    IN  {[clientX |-> r.left + q[1], clientY |-> r.top + q[2]] :
            q \in {<<west, north>>, <<west, r.height + 20>>,
                   <<r.width \div 2, r.height \div 2>>, <<r.width + 20, north>>}}

PointerDownAround == \E p \in AroundPoints(canvasEl) : PointerDownCanvasAt(p)

PointerMoveAround == \E p \in AroundPoints(canvasEl) : PointerMoveAt(p)

NextAround ==
    \/ PointerDownAround
    \/ PointerDownOverlay
    \/ PointerMoveAround
    \/ PointerUp
    \/ PointerCancel

SpecAround == InitMap /\ [][NextAround]_vars

(***************************************************************************)
(* constrainCropBox() on its own: any rectangle over any surface, the      *)
(* rectangle kept in startCropRect as it was given, and constrainCropBox() *)
(* applied to the region again and again.                                  *)
(***************************************************************************)
RectOrigins == {-40, -5, 0, 10, 45, 120}

RectSizes == {-10, 0, 10, 30, 50, 130}

SurfaceSizes == {20, 50, 100}

InitConstrain ==
    \E x \in RectOrigins, y \in RectOrigins, w \in RectSizes, h \in RectSizes,
       cw \in SurfaceSizes, ch \in SurfaceSizes :
        LET r == [x |-> x, y |-> y, width |-> w, height |-> h]
        IN  Starts([Constructed([width |-> cw, height |-> ch,
                                 bitmap |-> FrameBitmap(cw, ch)])
                       EXCEPT !.cropRect = r, !.startCropRect = r],
                   "preview-view", "constructor")

CallConstrainCropBox ==
    Becomes([Editor EXCEPT !.cropRect = ConstrainCropBox(cropRect, canvasEl)],
            view, "constrainCropBox")

SpecConstrain == InitConstrain /\ [][CallConstrainCropBox]_vars

(***************************************************************************)
(* The two variants side by side: each call of the host and each pointer   *)
(* event of the browser reaches both editors, which share the surface's    *)
(* size and the page's layout.  An event is delivered when either editor   *)
(* has the listener for it.                                                *)
(***************************************************************************)
TwinPointerDownCanvasAt(p) ==
    /\ view = "preview-view"
    /\ \/ <<"pointerdown", "onDrawStart">> \in containerListeners
       \/ <<"pointerdown", "onDrawStart">> \in twin.containerListeners
    /\ LET e == [clientX |-> p.clientX, clientY |-> p.clientY, target |-> CanvasTarget]
       IN  BecomesBoth(DispatchPointerDown(Editor, e), DispatchPointerDown2(twin, e),
                       view, "onDrawStart")

TwinPointerDownCanvas == \E p \in ClientPoints : TwinPointerDownCanvasAt(p)

TwinPointerDownOverlayAt(t, g) ==
    /\ view = "preview-view"
    /\ ~cropBoxEl.hidden \/ ~twin.cropBoxEl.hidden
    /\ LET p == HitPoint(Editor, t, g)
           e == [clientX |-> p.clientX, clientY |-> p.clientY, target |-> t]
       IN  BecomesBoth(DispatchPointerDown(Editor, e), DispatchPointerDown2(twin, e),
                       view, "onManipulateStart")

TwinPointerDownOverlay ==
    \E t \in OverlayTargets, g \in GrabOffsets : TwinPointerDownOverlayAt(t, g)

TwinPointerMoveAt(p) ==
    /\ \/ <<"pointermove", "onDrawOrManipulateMove">> \in windowListeners
       \/ <<"pointermove", "onDrawOrManipulateMove">> \in twin.windowListeners
    /\ LET e == [clientX |-> p.clientX, clientY |-> p.clientY, target |-> CanvasTarget]
       IN  BecomesBoth(DispatchPointerMove(Editor, e), DispatchPointerMove2(twin, e),
                       view, "onDrawOrManipulateMove")

TwinPointerMove == \E p \in ClientPoints : TwinPointerMoveAt(p)

TwinPointerUp ==
    /\ \/ <<"pointerup", "onDrawOrManipulateEnd">> \in windowListeners
       \/ <<"pointerup", "onDrawOrManipulateEnd">> \in twin.windowListeners
    /\ BecomesBoth(DispatchPointerUp(Editor), DispatchPointerUp2(twin), view, "pointerup")

TwinPointerCancel ==
    /\ \/ <<"pointercancel", "onDrawOrManipulateEnd">> \in windowListeners
       \/ <<"pointercancel", "onDrawOrManipulateEnd">> \in twin.windowListeners
    /\ BecomesBoth(DispatchPointerCancel(Editor), DispatchPointerCancel2(twin),
                   view, "pointercancel")

TwinActivate == BecomesBoth(Activate(Editor), Activate2(twin), view, "activate")

TwinDeactivate == BecomesBoth(Deactivate(Editor), Deactivate2(twin), view, "deactivate")

TwinClear == BecomesBoth(Clear(Editor), Clear2(twin), view, "clear")

TwinApplyCropToCanvas ==
    BecomesBoth(ApplyCropToCanvas(Editor), ApplyCropToCanvas2(twin),
                view, "applyCropToCanvas")

NextTwin ==
    \/ TwinPointerDownCanvas
    \/ TwinPointerDownOverlay
    \/ TwinPointerMove
    \/ TwinPointerUp
    \/ TwinPointerCancel
    \/ TwinActivate
    \/ TwinDeactivate
    \/ TwinClear
    \/ TwinApplyCropToCanvas

SpecTwin == InitApi /\ [][NextTwin]_vars

(***************************************************************************)
(* Observations used by the properties.                                    *)
(***************************************************************************)
\* mode = Idle
Idle == ~isDrawing /\ ~isManipulating /\ activeHandle = Null

\* The state clear() produces: no region, Idle, overlay hidden and deaf.
ClearedState ==
    /\ ~isCropDefined
    /\ Idle
    /\ cropBoxEl.hidden
    /\ <<"pointerdown", "onManipulateStart">> \notin cropBoxEl.listeners

\* The surface-space position of a pointer at the client position p.
Native(p) ==
    GetNativePointerPosition(Editor, [clientX |-> p.clientX, clientY |-> p.clientY,
                                      target |-> CanvasTarget])

EndedLast == lastOp \in {"pointerup", "pointercancel"}

MovedLast == lastOp = "onDrawOrManipulateMove"

(***************************************************************************)
(* C1: immediately after any pointerup or pointercancel handler ran, the   *)
(* editor is Idle (isDrawing = FALSE, isManipulating = FALSE,              *)
(* activeHandle = null) and no window-level pointermove, pointerup or      *)
(* pointercancel listener is registered.                                   *)
(***************************************************************************)
C1_IdleAfterEnd == EndedLast => (Idle /\ windowListeners = {})

\* A manipulating session on a defined region was ended by the handler.
C1_Witness ==
    /\ EndedLast
    /\ isCropDefined
    /\ startCropRect # ZeroRect

(***************************************************************************)
(* C2: on a surface of at least 2 * MinSize pixels on each axis, whenever  *)
(* a region is defined its far edges are inside the surface:               *)
(* x + width <= surface.width and y + height <= surface.height.            *)
(***************************************************************************)
C2_FarEdgesInside ==
    (isCropDefined /\ canvasEl.width >= 2 * MinSize /\ canvasEl.height >= 2 * MinSize)
        => /\ cropRect.x + cropRect.width <= canvasEl.width
           /\ cropRect.y + cropRect.height <= canvasEl.height

(***************************************************************************)
(* C3: whenever a region is defined, its width and its height are each at  *)
(* least MinSize (30).                                                     *)
(***************************************************************************)
C3_MinimumSize ==
    isCropDefined => (cropRect.width >= MinSize /\ cropRect.height >= MinSize)

\* A pointermove left the region against a surface edge with a dimension
\* held at the floor.
C3_Witness ==
    /\ MovedLast
    /\ isCropDefined
    /\ cropRect.width = MinSize
    /\ cropRect.x + cropRect.width >= canvasEl.width

(***************************************************************************)
(* C4: whenever a region is defined, its origin is non-negative on both    *)
(* axes, for every surface size.                                           *)
(***************************************************************************)
C4_OriginNonNegative == isCropDefined => (cropRect.x >= 0 /\ cropRect.y >= 0)

\* A resize with a handle containing w, grabbed inside the region, dragged
\* the west edge to the surface's origin.
C4_Witness ==
    /\ MovedLast
    /\ isCropDefined
    /\ isManipulating /\ ~isDrawing
    /\ activeHandle \in {"w", "nw", "sw"}
    /\ startCropRect.x > 0
    /\ startPointer.x > startCropRect.x
    /\ cropRect.x = 0
    /\ canvasEl.width < 2 * MinSize

(***************************************************************************)
(* C5: a drawing session started by a pointerdown outside of the overlay   *)
(* has no region (isDrawing, not isCropDefined); every pointermove whose   *)
(* displacement from the anchor is at most DrawThreshold (5) on both axes  *)
(* keeps it so; and the pointerup or pointercancel that ends it leaves the *)
(* editor in the state clear() produces.                                   *)
(***************************************************************************)
SmallDisplacement(p) ==
    /\ Abs(Native(p).x - startPointer.x) <= DrawThreshold
    /\ Abs(Native(p).y - startPointer.y) <= DrawThreshold

C5_TapStep ==
    /\ PointerDownCanvas => (isDrawing' /\ ~isCropDefined')
    /\ \A p \in ClientPoints :
          (isDrawing /\ ~isCropDefined /\ SmallDisplacement(p) /\ PointerMoveAt(p))
              => (isDrawing' /\ ~isCropDefined')
    /\ (isDrawing /\ ~isCropDefined /\ (PointerUp \/ PointerCancel)) => ClearedState'

C5_TapDefinesNothing == [][C5_TapStep]_vars

\* A pointermove of exactly the threshold on both axes acted in a drawing
\* session and defined nothing.
C5_Witness ==
    /\ MovedLast
    /\ isDrawing
    /\ ~isCropDefined
    /\ startPointer = [x |-> 0, y |-> 0]
    /\ canvasEl.width = 100

(***************************************************************************)
(* The handle delta rules of the specification, section 4.1, on the anchor *)
(* region a and the delta (dx, dy).                                        *)
(***************************************************************************)
Clamp(v, lo, hi) == Max(lo, Min(v, hi))

DeltaX(p) == Native(p).x - startPointer.x

DeltaY(p) == Native(p).y - startPointer.y

\* move: the anchor origin plus the delta, each axis clamped to
\* [0, surfaceSize - regionSize]; the size is the anchor's.
MovedRegion(a, dx, dy) ==
    [x |-> Clamp(a.x + dx, 0, canvasEl.width - a.width),
     y |-> Clamp(a.y + dy, 0, canvasEl.height - a.height),
     width |-> a.width, height |-> a.height]

\* The mode the specification gives a session started on the overlay.
Manipulating == isManipulating

(***************************************************************************)
(* C6: in a Manipulating session with the move handle, after each          *)
(* pointermove the region's size is the anchor region's size and its       *)
(* origin is the anchor origin plus (current pointer - anchor pointer),    *)
(* each axis clamped to [0, surfaceSize - regionSize].                     *)
(***************************************************************************)
C6_MoveStep ==
    \A p \in ClientPoints :
        (Manipulating /\ activeHandle = "move" /\ PointerMoveAt(p))
            => cropRect' = MovedRegion(startCropRect, DeltaX(p), DeltaY(p))

C6_MoveRule == [][C6_MoveStep]_vars

\* The same rule where the pointermove handler takes its manipulating
\* branch (isDrawing is FALSE).
C6_MoveStepNotDrawing ==
    \A p \in ClientPoints :
        (Manipulating /\ ~isDrawing /\ activeHandle = "move" /\ PointerMoveAt(p))
            => cropRect' = MovedRegion(startCropRect, DeltaX(p), DeltaY(p))

C6_MoveRuleNotDrawing == [][C6_MoveStepNotDrawing]_vars

\* The example: anchor {10, 10, 50, 50} on a 200 x 200 surface, moved right
\* past the surface's edge with dy = 0, is {150, 10, 50, 50}.
C6_Example ==
    /\ MovedLast
    /\ isManipulating /\ ~isDrawing /\ activeHandle = "move"
    /\ canvasEl.width = 200 /\ canvasEl.height = 200
    /\ startCropRect = [x |-> 10, y |-> 10, width |-> 50, height |-> 50]
    /\ cropRect = [x |-> 150, y |-> 10, width |-> 50, height |-> 50]

(***************************************************************************)
(* C7: in a Manipulating session with a handle containing e, a pointermove *)
(* with delta dx sets width = anchor width + dx and leaves x unchanged,    *)
(* whenever the result is at least MinSize and inside the surface; the     *)
(* pure e handle also leaves y and height unchanged.  Symmetrically a      *)
(* handle containing s sets height = anchor height + dy and leaves y       *)
(* unchanged.                                                              *)
(***************************************************************************)
EastRule(a, h, dx) ==
    (Includes(h, "e") /\ a.width + dx >= MinSize /\ a.x + a.width + dx <= canvasEl.width)
        => /\ cropRect'.width = a.width + dx
           /\ cropRect'.x = a.x
           /\ h = "e" => (cropRect'.y = a.y /\ cropRect'.height = a.height)

SouthRule(a, h, dy) ==
    (Includes(h, "s") /\ a.height + dy >= MinSize /\ a.y + a.height + dy <= canvasEl.height)
        => /\ cropRect'.height = a.height + dy
           /\ cropRect'.y = a.y
           /\ h = "s" => (cropRect'.x = a.x /\ cropRect'.width = a.width)

C7_EastSouthStep ==
    \A p \in ClientPoints :
        (Manipulating /\ activeHandle \in Handles /\ PointerMoveAt(p))
            => /\ EastRule(startCropRect, activeHandle, DeltaX(p))
               /\ SouthRule(startCropRect, activeHandle, DeltaY(p))

C7_EastSouthRule == [][C7_EastSouthStep]_vars

\* The same rule where the pointermove handler takes its manipulating
\* branch (isDrawing is FALSE).
C7_EastSouthStepNotDrawing ==
    \A p \in ClientPoints :
        (Manipulating /\ ~isDrawing /\ activeHandle \in Handles /\ PointerMoveAt(p))
            => /\ EastRule(startCropRect, activeHandle, DeltaX(p))
               /\ SouthRule(startCropRect, activeHandle, DeltaY(p))

C7_EastSouthRuleNotDrawing == [][C7_EastSouthStepNotDrawing]_vars

\* The example: handle e, anchor {10, 10, 50, 50}, dx = 20, dy = 0.
C7_Example ==
    /\ MovedLast
    /\ isManipulating /\ ~isDrawing /\ activeHandle = "e"
    /\ startCropRect = [x |-> 10, y |-> 10, width |-> 50, height |-> 50]
    /\ startPointer = [x |-> 50, y |-> 20]
    /\ cropRect = [x |-> 10, y |-> 10, width |-> 70, height |-> 50]

(***************************************************************************)
(* C8: in a Manipulating session with a handle containing w (resp. n), a   *)
(* pointermove with delta dx (resp. dy) sets x = anchor x + dx and         *)
(* width = anchor width - dx (resp. y = anchor y + dy and                  *)
(* height = anchor height - dy), a negative origin being clamped to 0      *)
(* with the size reduced by the overflow.                                  *)
(***************************************************************************)
WestRule(a, h, dx) ==
    Includes(h, "w")
        => /\ cropRect'.x = Max(a.x + dx, 0)
           /\ cropRect'.width = (a.width - dx) + Min(a.x + dx, 0)

NorthRule(a, h, dy) ==
    Includes(h, "n")
        => /\ cropRect'.y = Max(a.y + dy, 0)
           /\ cropRect'.height = (a.height - dy) + Min(a.y + dy, 0)

C8_WestNorthStep ==
    \A p \in ClientPoints :
        (Manipulating /\ activeHandle \in Handles /\ PointerMoveAt(p))
            => /\ WestRule(startCropRect, activeHandle, DeltaX(p))
               /\ NorthRule(startCropRect, activeHandle, DeltaY(p))

C8_WestNorthRule == [][C8_WestNorthStep]_vars

\* The same rule where the pointermove handler takes its manipulating
\* branch and the result is at least MinSize with its far edge inside the
\* surface.
C8_WestNorthStepInRange ==
    \A p \in ClientPoints :
        (Manipulating /\ ~isDrawing /\ activeHandle \in Handles /\ PointerMoveAt(p))
            => LET a == startCropRect
                   dx == DeltaX(p)
                   dy == DeltaY(p)
               IN  /\ ((a.width - dx) + Min(a.x + dx, 0) >= MinSize
                          /\ a.x + a.width <= canvasEl.width)
                        => WestRule(a, activeHandle, dx)
                   /\ ((a.height - dy) + Min(a.y + dy, 0) >= MinSize
                          /\ a.y + a.height <= canvasEl.height)
                        => NorthRule(a, activeHandle, dy)

C8_WestNorthRuleInRange == [][C8_WestNorthStepInRange]_vars

\* The example: handle nw, anchor {10, 10, 50, 50}, dragged to the
\* surface's origin and beyond.
C8_Example ==
    /\ MovedLast
    /\ isManipulating /\ ~isDrawing /\ activeHandle = "nw"
    /\ startCropRect = [x |-> 10, y |-> 10, width |-> 50, height |-> 50]
    /\ startPointer = [x |-> 20, y |-> 20]
    /\ cropRect = [x |-> 0, y |-> 0, width |-> 60, height |-> 60]

(***************************************************************************)
(* C9: applyCropToCanvas() invoked while isCropped() is false is a no-op:  *)
(* the surface's pixel dimensions and content, and all editor state, are   *)
(* unchanged.                                                              *)
(***************************************************************************)
CommittedLast == lastOp = "applyCropToCanvas"

C9_CommitUndefinedStep ==
    (~isCropDefined /\ CallApplyCropToCanvas)
        => UNCHANGED <<cropRect, activeHandle, isManipulating, isDrawing,
                       isCropDefined, startPointer, startCropRect, canvasEl,
                       cropBoxEl, containerListeners, windowListeners>>

C9_CommitUndefinedNoOp == [][C9_CommitUndefinedStep]_vars

\* A commit after the region was drawn and then cleared: the stale
\* rectangle is not applied.
C9_Witness ==
    /\ CommittedLast
    /\ ~isCropDefined
    /\ cropRect.width >= MinSize
    /\ canvasEl.width > cropRect.width

(***************************************************************************)
(* C10: applyCropToCanvas() with a defined region {x, y, w, h} lying       *)
(* inside the surface replaces the surface by one of exactly w x h pixels  *)
(* whose pixel at (i, j) equals the source pixel at (x + i, y + j) for all *)
(* 0 <= i < w, 0 <= j < h.                                                 *)
(***************************************************************************)
RegionInsideSurface ==
    /\ cropRect.x >= 0 /\ cropRect.y >= 0
    /\ cropRect.x + cropRect.width <= canvasEl.width
    /\ cropRect.y + cropRect.height <= canvasEl.height

C10_CommitStep ==
    (isCropDefined /\ RegionInsideSurface /\ CallApplyCropToCanvas)
        => /\ canvasEl'.width = cropRect.width
           /\ canvasEl'.height = cropRect.height
           /\ \A i \in 0..(cropRect.width - 1), j \in 0..(cropRect.height - 1) :
                  PixelAt(canvasEl', i, j)
                      = PixelAt(canvasEl, cropRect.x + i, cropRect.y + j)

C10_CommitCopiesRegion == [][C10_CommitStep]_vars

\* A committed region with a non-zero origin: the surface's first pixel is
\* the frame's pixel at the region's origin.
C10_Witness ==
    /\ CommittedLast
    /\ isCropDefined
    /\ cropRect.x > 0 /\ cropRect.y > 0
    /\ canvasEl.width = cropRect.width /\ canvasEl.height = cropRect.height
    /\ PixelAt(canvasEl, 0, 0) = <<cropRect.x, cropRect.y>>

\* The example: region {0, 0, 40, 40} committed, a 40 x 40 surface equal to
\* the frame's top-left block.
C10_Example ==
    /\ CommittedLast
    /\ isCropDefined
    /\ cropRect = [x |-> 0, y |-> 0, width |-> 40, height |-> 40]
    /\ canvasEl.width = 40 /\ canvasEl.height = 40
    /\ \A i \in 0..39, j \in 0..39 : PixelAt(canvasEl, i, j) = <<i, j>>

(***************************************************************************)
(* C11: after deactivate(), called from any reachable state including the  *)
(* middle of a gesture, no listener of the editor remains registered (on   *)
(* the container, the window or the overlay), isCropped() is false, the    *)
(* mode is Idle and the overlay is hidden; pointer events delivered        *)
(* afterwards change nothing until activate() is called.                   *)
(***************************************************************************)
PointerEvents ==
    {[clientX |-> p.clientX, clientY |-> p.clientY, target |-> t] :
        p \in ClientPoints, t \in {CanvasTarget} \cup OverlayTargets}

NoListeners ==
    /\ containerListeners = {}
    /\ windowListeners = {}
    /\ cropBoxEl.listeners = {}

PointerEventsChangeNothing ==
    /\ DispatchPointerUp(Editor) = Editor
    /\ DispatchPointerCancel(Editor) = Editor
    /\ \A e \in PointerEvents :
        /\ DispatchPointerDown(Editor, e) = Editor
        /\ DispatchPointerMove(Editor, e) = Editor

Deactivated ==
    /\ NoListeners
    /\ ~isCropDefined
    /\ Idle
    /\ cropBoxEl.hidden
    /\ PointerEventsChangeNothing

DeactivatedLast == lastOp = "deactivate"

\* Until activate() is called a deactivated editor stays deactivated, and
\* no pointer event is handled.
C11_StaysDeactivated ==
    (Deactivated /\ ~CallActivate)
        => /\ Deactivated'
           /\ ~(PointerDownCanvas \/ PointerDownOverlay \/ PointerMove
                    \/ PointerUp \/ PointerCancel)

C11_DeactivateTearsDown ==
    /\ [](DeactivatedLast => Deactivated)
    /\ [][C11_StaysDeactivated]_vars

\* deactivate() as the fifth call, after activate(), a draw and a press on
\* the overlay: no release can have come before it.
C11_Witness ==
    /\ DeactivatedLast
    /\ steps = 5
    /\ startCropRect.width >= MinSize
    /\ Deactivated

(***************************************************************************)
(* C12: clear() called from any reachable state resets to the no-region    *)
(* state (isCropped() false, mode Idle, activeHandle null, overlay hidden, *)
(* overlay pointerdown listener removed) without deactivating: the         *)
(* pointerdown listener on the container stays registered, so a later      *)
(* pointerdown outside of the overlay still starts a drawing session.      *)
(***************************************************************************)
Active == <<"pointerdown", "onDrawStart">> \in containerListeners

CanvasEvents ==
    {[clientX |-> p.clientX, clientY |-> p.clientY, target |-> CanvasTarget] :
        p \in ClientPoints}

C12_ClearStep ==
    CallClear
        => /\ ClearedState'
           /\ containerListeners' = containerListeners
           /\ canvasEl' = canvasEl

ClearedLast == lastOp = "clear"

\* After clear() on an active editor a pointerdown outside of the overlay
\* starts a drawing session.
PointerDownStartsDrawing ==
    \A e \in CanvasEvents :
        LET s == DispatchPointerDown(Editor, e)
        IN  s.isDrawing /\ ~s.isManipulating /\ s.windowListeners = SessionListeners

C12_ClearKeepsActive ==
    /\ [][C12_ClearStep]_vars
    /\ []((ClearedLast /\ Active) => PointerDownStartsDrawing)

\* clear() in the middle of a gesture of an active editor.
C12_Witness ==
    /\ ClearedLast
    /\ Active
    /\ windowListeners # {}
    /\ ClearedState

(***************************************************************************)
(* C13: in every reachable state the window's pointermove / pointerup /    *)
(* pointercancel listeners are registered if and only if a gesture         *)
(* session is active (isDrawing or isManipulating), including when clear() *)
(* runs in the middle of a gesture (e.g. through rotatePreviewImage()).    *)
(***************************************************************************)
SessionActive == isDrawing \/ isManipulating

C13_WindowListenersIffSession ==
    /\ SessionActive => windowListeners = SessionListeners
    /\ ~SessionActive => windowListeners = {}

\* One direction holds: a session always has its three listeners.
C13_SessionHasListeners == SessionActive => windowListeners = SessionListeners

(***************************************************************************)
(* C14: a pointerdown outside of the overlay while the editor is active    *)
(* always enters Drawing and clears any previously defined region:         *)
(* afterwards isCropped() is false, the overlay is hidden, the anchor      *)
(* pointer equals the clamped surface-space pointer position and the       *)
(* region is the zero-size rectangle at the anchor; hence a tap outside of *)
(* an existing region followed by release leaves no region.                *)
(***************************************************************************)
\* The surface-space position of the client position p: the offset from the
\* rendered canvas scaled by intrinsic / rendered width, clamped.
SurfacePosition(p) ==
    LET r == CanvasRect(canvasEl)
    IN  [x |-> Clamp(((p.clientX - r.left) * canvasEl.width) \div r.width,
                     0, canvasEl.width),
         y |-> Clamp(((p.clientY - r.top) * canvasEl.width) \div r.width,
                     0, canvasEl.height)]

C14_DrawStartStep ==
    /\ \A p \in ClientPoints :
        PointerDownCanvasAt(p)
            => /\ isDrawing' /\ ~isManipulating' /\ activeHandle' = Null
               /\ ~isCropDefined'
               /\ cropBoxEl'.hidden
               /\ startPointer' = SurfacePosition(p)
               /\ cropRect' = [x |-> SurfacePosition(p).x, y |-> SurfacePosition(p).y,
                               width |-> 0, height |-> 0]
    /\ (lastOp = "onDrawStart" /\ (PointerUp \/ PointerCancel))
            => (~isCropDefined' /\ cropBoxEl'.hidden /\ Idle')

C14_DrawStartClearsRegion == [][C14_DrawStartStep]_vars

\* A pointerdown outside of an existing region: the overlay still carries
\* the style of the region that was cleared.
C14_Witness ==
    /\ lastOp = "onDrawStart"
    /\ cropBoxEl.style.width > 0
    /\ startCropRect.width >= MinSize
    /\ isDrawing /\ ~isCropDefined /\ cropBoxEl.hidden

(***************************************************************************)
(* C15: within one Manipulating session the deltas are never compounded:   *)
(* the region after a pointermove at position p depends only on the        *)
(* anchor region, the anchor pointer, the active handle and p, so any two  *)
(* sequences of pointermoves in the same session that end at the same      *)
(* position p leave the same region.                                       *)
(***************************************************************************)
MoveEvent(p) == [clientX |-> p.clientX, clientY |-> p.clientY, target |-> CanvasTarget]

\* The editor at the start of the session: the region is the anchor region.
AtAnchor == [Editor EXCEPT !.cropRect = startCropRect]

C15_SessionStep ==
    \A p \in ClientPoints :
        (Manipulating /\ PointerMoveAt(p))
            => /\ startCropRect' = startCropRect
               /\ startPointer' = startPointer
               /\ activeHandle' = activeHandle
               /\ isCropDefined
                    => cropRect' = DispatchPointerMove(AtAnchor, MoveEvent(p)).cropRect
               /\ \A q \in ClientPoints :
                    cropRect' = DispatchPointerMove(DispatchPointerMove(Editor, MoveEvent(q)),
                                                    MoveEvent(p)).cropRect

C15_NoCompounding == [][C15_SessionStep]_vars

\* A resize in a session started on a handle, the region away from the
\* anchor region.
C15_Witness ==
    /\ MovedLast
    /\ isManipulating /\ ~isDrawing
    /\ activeHandle \in Handles
    /\ cropRect # startCropRect
    /\ cropRect.width > MinSize /\ cropRect.height > MinSize

(***************************************************************************)
(* C16: for an integer-scaled rendered surface,                            *)
(* toDisplay(toSurface(p)) = p for every on-screen point p inside the      *)
(* rendered surface box, where toSurface is getNativePointerPosition and   *)
(* toDisplay is the origin mapping of updateStyle.                         *)
(***************************************************************************)
\* The on-screen position updateStyle() gives the overlay for a region whose
\* origin is the surface point q: the overlay is translated from the
\* container's origin.
ToDisplay(q) ==
    LET st == UpdateStyle([Editor EXCEPT !.cropRect.x = q.x,
                                         !.cropRect.y = q.y]).cropBoxEl.style
    IN  [clientX |-> ContainerRect.left + st.x, clientY |-> ContainerRect.top + st.y]

IntegerScaled ==
    canvasEl.width % CanvasRect(canvasEl).width = 0

\* The pointerdown at p records toSurface(p) as the anchor pointer.
C16_RoundTripStep ==
    \A p \in BoxPoints(canvasEl) :
        (IntegerScaled /\ MapPointerDownAt(p)) => ToDisplay(startPointer') = p

C16_RoundTrip == [][C16_RoundTripStep]_vars

\* The anchor of a pointerdown inside a canvas rendered at half its size,
\* away from the canvas's edges.
C16_Witness ==
    /\ lastOp = "onDrawStart"
    /\ canvasEl.width = 2 * CanvasRect(canvasEl).width
    /\ startPointer.x = 2 * 37 /\ startPointer.y = 2 * 50
    /\ ToDisplay(startPointer) = [clientX |-> Layout.canvasLeft + 37,
                                  clientY |-> Layout.canvasTop + 50]

(***************************************************************************)
(* C17: pointercancel is handled exactly like pointerup: from every        *)
(* reachable state the state after a pointercancel equals the state after  *)
(* a pointerup, so a gesture that ends without a pointerup still returns   *)
(* the machine to Idle and releases the window's listeners; and assuming   *)
(* every pointerdown is eventually followed by a pointerup or a            *)
(* pointercancel, every session eventually reaches Idle.                   *)
(***************************************************************************)
CancelLikeUp == DispatchPointerCancel(Editor) = DispatchPointerUp(Editor)

CancelledLast == lastOp = "pointercancel"

C17_CancelLikeUp ==
    /\ []CancelLikeUp
    /\ [](CancelledLast => (Idle /\ windowListeners = {}))
    /\ (SessionActive ~> Idle)

\* A manipulating session ended by a pointercancel.
C17_Witness ==
    /\ CancelledLast
    /\ isCropDefined
    /\ startCropRect.width >= MinSize
    /\ startPointer.x > startCropRect.x
    /\ Idle /\ windowListeners = {}

(***************************************************************************)
(* C18: the session mode is always exactly one of drawing, manipulating or *)
(* idle: isDrawing and isManipulating are never both true in any reachable *)
(* state, and after a pointerdown on the overlay (including one arriving   *)
(* while a drawing session with a defined region is still in progress) the *)
(* following pointermoves apply the handle delta rules of Manipulating     *)
(* rather than the drawing rule.                                           *)
(***************************************************************************)
C18_ExactlyOneMode == ~(isDrawing /\ isManipulating)

(***************************************************************************)
(* C19: in a drawing session the region becomes defined at the first       *)
(* pointermove whose displacement from the anchor exceeds DrawThreshold on *)
(* at least one axis (exactly DrawThreshold does not define it); at that   *)
(* step the overlay is revealed and the overlay's pointerdown listener is  *)
(* registered, and the region then stays defined for the rest of the       *)
(* session even if the pointer returns to within the threshold.            *)
(***************************************************************************)
OverlayShown ==
    /\ ~cropBoxEl.hidden
    /\ <<"pointerdown", "onManipulateStart">> \in cropBoxEl.listeners

ExceedsThreshold(p) ==
    Abs(DeltaX(p)) > DrawThreshold \/ Abs(DeltaY(p)) > DrawThreshold

C19_DefineStep ==
    \A p \in ClientPoints :
        (isDrawing /\ PointerMoveAt(p))
            => /\ isDrawing'
               /\ ~isCropDefined => /\ isCropDefined' <=> ExceedsThreshold(p)
                                    /\ OverlayShown' <=> ExceedsThreshold(p)
               /\ isCropDefined => (isCropDefined' /\ OverlayShown')

C19_DefinedPastThreshold == [][C19_DefineStep]_vars

\* A draw from (5, 5) on a surface shown at its own size, the pointer back
\* at (0, 0): a displacement of exactly DrawThreshold, the region defined.
C19_Witness ==
    /\ MovedLast
    /\ isDrawing /\ ~isManipulating
    /\ canvasEl.width <= Layout.maxWidth
    /\ startPointer = [x |-> DrawThreshold, y |-> DrawThreshold]
    /\ cropRect.x = 0 /\ cropRect.y = 0
    /\ isCropDefined /\ OverlayShown

(***************************************************************************)
(* C20: in a drawing session with the region defined, after each           *)
(* pointermove the region is the axis-aligned box spanning the anchor and  *)
(* the current pointer: its origin is the component-wise minimum of anchor *)
(* and current pointer and its size is (|dx|, |dy|), each dimension raised *)
(* to MinSize by constrainCropBox(); the region therefore always contains  *)
(* both the anchor and the current pointer.                                *)
(***************************************************************************)
Contains(r, q) ==
    /\ r.x <= q.x /\ q.x <= r.x + r.width
    /\ r.y <= q.y /\ q.y <= r.y + r.height

C20_DrawStep ==
    \A p \in ClientPoints :
        (isDrawing /\ PointerMoveAt(p) /\ isCropDefined')
            => /\ cropRect' = [x |-> Min(startPointer.x, Native(p).x),
                               y |-> Min(startPointer.y, Native(p).y),
                               width |-> Max(Abs(DeltaX(p)), MinSize),
                               height |-> Max(Abs(DeltaY(p)), MinSize)]
               /\ Contains(cropRect', startPointer)
               /\ Contains(cropRect', Native(p))

C20_BoxSpansAnchorAndPointer == [][C20_DrawStep]_vars

\* A draw towards the top left: the moving corner is the region's origin.
C20_Witness ==
    /\ MovedLast
    /\ isDrawing /\ ~isManipulating /\ isCropDefined
    /\ cropRect.x < startPointer.x /\ cropRect.y < startPointer.y
    /\ cropRect.width > MinSize /\ cropRect.height > MinSize
    /\ cropRect.x + cropRect.width = startPointer.x
    /\ cropRect.y + cropRect.height = startPointer.y

(***************************************************************************)
(* C21: a pointerdown on the overlay starts a session with activeHandle    *)
(* equal to the hit handle's identity when the target is a resize handle   *)
(* and "move" when the target is the overlay body, with startPointer set   *)
(* to the surface-space pointer position and startCropRect set to a copy   *)
(* of the current region; the region itself and isCropDefined are          *)
(* unchanged by the pointerdown, and the container's draw-start handler    *)
(* ignores that event.                                                     *)
(***************************************************************************)
C21_ManipulateStartStep ==
    \A t \in OverlayTargets, g \in GrabOffsets :
        PointerDownOverlayAt(t, g)
            => /\ isManipulating'
               /\ activeHandle' = IF t.el = "crop-handle" THEN t.handle ELSE "move"
               /\ startPointer' = SurfacePosition(HitPoint(Editor, t, g))
               /\ startCropRect' = cropRect
               /\ windowListeners' = SessionListeners
               \* the region and the overlay are as they were, and
               \* onDrawStart neither cleared the region nor set isDrawing
               /\ UNCHANGED <<cropRect, isCropDefined, isDrawing, cropBoxEl,
                              canvasEl, containerListeners>>

C21_ManipulateStart == [][C21_ManipulateStartStep]_vars

\* A press on the se handle of a region, no gesture being in progress.
C21_Witness ==
    /\ lastOp = "onManipulateStart"
    /\ activeHandle = "se"
    /\ isManipulating /\ ~isDrawing /\ isCropDefined
    /\ startCropRect = cropRect
    /\ startPointer = [x |-> cropRect.x + cropRect.width - 10,
                       y |-> cropRect.y + cropRect.height - 10]

(***************************************************************************)
(* C22: during a Manipulating session no pointermove changes startPointer  *)
(* or startCropRect: the anchor region is a snapshot copy, not an alias of *)
(* the live region, so mutating the region and enforcing the constraints   *)
(* leaves the snapshot equal to the region at session start.               *)
(***************************************************************************)
C22_AnchorsStep ==
    \A p \in ClientPoints :
        (Manipulating /\ PointerMoveAt(p))
            => /\ startPointer' = startPointer
               /\ startCropRect' = startCropRect

C22_AnchorsKept == [][C22_AnchorsStep]_vars

\* The region dragged away from its anchor by the move handle.
C22_Witness ==
    /\ MovedLast
    /\ isManipulating /\ ~isDrawing
    /\ activeHandle = "move"
    /\ cropRect.x # startCropRect.x
    /\ cropRect.width = startCropRect.width

(***************************************************************************)
(* C23: pointermove handling is idempotent in every mode: delivering the   *)
(* same pointermove (same pointer position) twice in succession leaves     *)
(* exactly the same editor state (region, isCropDefined, mode, anchors,    *)
(* listeners) as delivering it once.                                       *)
(***************************************************************************)
MoveEvents == {MoveEvent(p) : p \in ClientPoints}

C23_MoveIdempotent ==
    \A e \in MoveEvents :
        DispatchPointerMove(DispatchPointerMove(Editor, e), e)
            = DispatchPointerMove(Editor, e)

\* An e handle dragged until the region's far edge meets the surface's
\* edge: the state a repeated pointermove has to reproduce.
C23_Witness ==
    /\ MovedLast
    /\ isManipulating /\ ~isDrawing
    /\ activeHandle = "e"
    /\ cropRect.width > startCropRect.width
    /\ cropRect.x + cropRect.width = canvasEl.width
    /\ \E e \in MoveEvents : DispatchPointerMove(Editor, e) = Editor

(***************************************************************************)
(* C24: the first step of constrainCropBox() keeps the far edge fixed:     *)
(* when the region's x (resp. y) is negative, x is set to 0 and width is   *)
(* reduced by the overflow, so x + width (resp. y + height) is the same    *)
(* before and after the step, provided the reduced size is still at least  *)
(* MinSize.                                                                *)
(***************************************************************************)
\* The region a pointermove at p writes before constrainCropBox() runs.
RawRegion(p) == ManipulatingMove(Editor, Native(p)).cropRect

C24_ClampStep ==
    \A p \in ClientPoints :
        (isManipulating /\ ~isDrawing /\ PointerMoveAt(p))
            => LET raw == RawRegion(p)
                   c == ClampNegativeOrigin(raw)
               IN  /\ raw.x < 0
                        => /\ c.x = 0
                           /\ c.width = raw.width + raw.x
                           /\ c.x + c.width = raw.x + raw.width
                           \* and constrainCropBox() as a whole keeps it
                           /\ (c.width >= MinSize /\ c.width <= canvasEl.width)
                                => /\ cropRect'.x = 0
                                   /\ cropRect'.x + cropRect'.width = raw.x + raw.width
                   /\ raw.y < 0
                        => /\ c.y = 0
                           /\ c.height = raw.height + raw.y
                           /\ c.y + c.height = raw.y + raw.height
                           /\ (c.height >= MinSize /\ c.height <= canvasEl.height)
                                => /\ cropRect'.y = 0
                                   /\ cropRect'.y + cropRect'.height = raw.y + raw.height

C24_ClampKeepsFarEdge == [][C24_ClampStep]_vars

\* On a surface shown at its own size, a handle containing w grabbed 10
\* pixels inside a region that starts right of the origin and dragged to
\* the surface's west edge or beyond: the written x is negative.
C24_Witness ==
    /\ MovedLast
    /\ isManipulating /\ ~isDrawing
    /\ activeHandle \in {"w", "nw", "sw"}
    /\ canvasEl.width <= Layout.maxWidth
    /\ startCropRect.x > 0
    /\ startPointer.x = startCropRect.x + 10
    /\ cropRect.x = 0
    /\ cropRect.width = startCropRect.x + startCropRect.width

(***************************************************************************)
(* C25: corner handles combine the two single-axis rules independently:    *)
(* in a Manipulating session, after a pointermove the x and width given by *)
(* a corner handle (ne, nw, se, sw) are those its horizontal handle (e or  *)
(* w) alone gives for the same anchors and pointer, the y and height are   *)
(* those its vertical handle (n or s) alone gives, and a single-axis       *)
(* handle leaves the other axis's origin and size unchanged.               *)
(***************************************************************************)
Corners == {"ne", "nw", "se", "sw"}

HorizontalOf(h) == IF Includes(h, "e") THEN "e" ELSE "w"

VerticalOf(h) == IF Includes(h, "s") THEN "s" ELSE "n"

\* The region the same pointermove gives when the session's handle is k.
AloneRegion(k, p) ==
    OnDrawOrManipulateMove([Editor EXCEPT !.activeHandle = k],
                           [clientX |-> p.clientX, clientY |-> p.clientY,
                            target |-> CanvasTarget]).cropRect

CornerCombines(p) ==
    /\ activeHandle \in Corners
         => /\ cropRect'.x = AloneRegion(HorizontalOf(activeHandle), p).x
            /\ cropRect'.width = AloneRegion(HorizontalOf(activeHandle), p).width
            /\ cropRect'.y = AloneRegion(VerticalOf(activeHandle), p).y
            /\ cropRect'.height = AloneRegion(VerticalOf(activeHandle), p).height
    /\ activeHandle \in {"e", "w"}
         => (cropRect'.y = cropRect.y /\ cropRect'.height = cropRect.height)
    /\ activeHandle \in {"n", "s"}
         => (cropRect'.x = cropRect.x /\ cropRect'.width = cropRect.width)

C25_CornerStep ==
    \A p \in ClientPoints :
        (Manipulating /\ activeHandle \in Handles /\ PointerMoveAt(p))
            => CornerCombines(p)

C25_CornerCombines == [][C25_CornerStep]_vars

\* The same with the drawing flag down, where lines 401-412 run.
C25_CornerStepNotDrawing ==
    \A p \in ClientPoints :
        (Manipulating /\ ~isDrawing /\ activeHandle \in Handles /\ PointerMoveAt(p))
            => CornerCombines(p)

C25_CornerCombinesNotDrawing == [][C25_CornerStepNotDrawing]_vars

\* A corner handle has changed both axes of the anchor region.
C25_CornerMoved ==
    /\ MovedLast
    /\ isManipulating /\ ~isDrawing /\ activeHandle \in Corners
    /\ cropRect.width # startCropRect.width
    /\ cropRect.height # startCropRect.height

(***************************************************************************)
(* C26: a Manipulating session whose handle identity matches no compass    *)
(* direction (it contains none of the letters e, w, s, n the handle rules  *)
(* test for, and is not "move"), or is missing, is a no-op delta: every    *)
(* pointermove of that session leaves the region's origin and size         *)
(* unchanged and raises no fault (the rules are never applied to a missing *)
(* identity).                                                              *)
(***************************************************************************)
NoDirection(h) ==
    \/ h = Null
    \/ h = ""
    \/ /\ h # "move"
       /\ \A c \in {"e", "w", "s", "n"} : ~Includes(h, c)

C26_NoOpStep ==
    \A p \in ClientPoints :
        (Manipulating /\ NoDirection(activeHandle) /\ PointerMoveAt(p))
            => cropRect' = cropRect

C26_UnknownHandleNoOp == [][C26_NoOpStep]_vars

\* The same with the drawing flag down, where lines 396-412 run.
C26_NoOpStepNotDrawing ==
    \A p \in ClientPoints :
        (Manipulating /\ ~isDrawing /\ NoDirection(activeHandle) /\ PointerMoveAt(p))
            => cropRect' = cropRect

C26_UnknownHandleNoOpNotDrawing == [][C26_NoOpStepNotDrawing]_vars

\* A session on a handle without identity has seen a pointermove away from
\* the press point.
C26_UnknownHandleMoved ==
    /\ MovedLast
    /\ isManipulating /\ ~isDrawing
    /\ activeHandle \in {Null, "", "x"}
    /\ cropRect = startCropRect
    /\ cropRect.x > 0

(***************************************************************************)
(* C27: in every reachable state the overlay is visible if and only if the *)
(* region is defined, and the overlay's pointerdown listener is registered *)
(* if and only if the region is defined; consequently a Manipulating       *)
(* session can only start while the region is defined, and no commit       *)
(* changes the surface while no region has been drawn.                     *)
(***************************************************************************)
C27_OverlayState ==
    /\ (~cropBoxEl.hidden) <=> isCropDefined
    /\ (<<"pointerdown", "onManipulateStart">> \in cropBoxEl.listeners) <=> isCropDefined

C27_Consequences ==
    /\ (~isManipulating /\ isManipulating') => (isCropDefined /\ isCropDefined')
    /\ (~isCropDefined /\ ConfirmPhoto) => canvasEl' = canvasEl

C28_HandleImpliesManipulating == activeHandle # Null => isManipulating

C28_ResetStep ==
    (PointerUp \/ PointerCancel \/ CallClear \/ CallDeactivate \/ PointerDownCanvas)
        => activeHandle' = Null

C28_HandleOnlyWhileManipulating ==
    []C28_HandleImpliesManipulating /\ [][C28_ResetStep]_vars

\* A drawing session started as the fifth handler, right after the press
\* on the overlay that set the handle: no release came in between.
C28_Witness ==
    /\ lastOp = "onDrawStart"
    /\ steps = 5
    /\ isDrawing
    /\ startCropRect.width >= MinSize
    /\ activeHandle = Null

(***************************************************************************)
(* C29: the region is cleared on rotation: after rotatePreviewImage() the  *)
(* surface has its width and height swapped, the region is not defined,    *)
(* the overlay is hidden and the mode is Idle, even when the rotation      *)
(* happens in the middle of a gesture; the editor stays active, so a new   *)
(* region can be drawn.                                                    *)
(***************************************************************************)
RotatedLast == lastOp = "rotatePreviewImage"

C29_RotateStep ==
    RotatePreviewImage
        => /\ canvasEl'.width = canvasEl.height
           /\ canvasEl'.height = canvasEl.width
           /\ ClearedState'
           /\ containerListeners' = containerListeners
           /\ Active'

C29_RotationClearsRegion ==
    /\ [][C29_RotateStep]_vars
    /\ [](RotatedLast => PointerDownStartsDrawing)

\* A rotation of a 40 x 50 or 50 x 40 surface in the middle of a gesture
\* on a defined region.
C29_Witness ==
    /\ RotatedLast
    /\ windowListeners = SessionListeners
    /\ canvasEl.width # canvasEl.height
    /\ cropRect.width >= MinSize
    /\ ClearedState
    /\ Active

(***************************************************************************)
(* C30: activate() always starts from an empty region: after activate()    *)
(* the region is not defined, the mode is Idle, the overlay is hidden, and *)
(* exactly one draw-start pointerdown listener is registered on the        *)
(* container; a repeated activate() adds no duplicate (the listener is the *)
(* one function bound in the constructor, which addEventListener registers *)
(* once).                                                                  *)
(***************************************************************************)
ActivatedLast == lastOp = "activate"

C30_ActivateStep ==
    CallActivate
        => /\ ClearedState'
           /\ containerListeners' = {<<"pointerdown", "onDrawStart">>}
           /\ Cardinality(containerListeners') = 1
           /\ canvasEl' = canvasEl

C30_ActivateStartsEmpty ==
    /\ [][C30_ActivateStep]_vars
    /\ [](ActivatedLast => PointerDownStartsDrawing)

\* A second activate(), as the fourth call, in the middle of the drawing
\* session that defined a region.
C30_Witness ==
    /\ ActivatedLast
    /\ steps = 4
    /\ cropRect.width >= MinSize
    /\ windowListeners = SessionListeners
    /\ ClearedState
    /\ Active

(***************************************************************************)
(* C31: every pointer position used by the geometry rules lies inside the  *)
(* surface: getNativePointerPosition maps a display point to               *)
(* ((clientX - renderedLeft) * intrinsicWidth / renderedWidth,             *)
(* (clientY - renderedTop) * intrinsicWidth / renderedWidth) and clamps    *)
(* the coordinates to [0, intrinsicWidth] and [0, intrinsicHeight], so the *)
(* anchor pointer and every current pointer satisfy 0 <= x <= width and    *)
(* 0 <= y <= height of the surface at the time of the event.               *)
(***************************************************************************)
InSurface(q) ==
    /\ 0 <= q.x /\ q.x <= canvasEl.width
    /\ 0 <= q.y /\ q.y <= canvasEl.height

C31_PointerStep ==
    \A p \in AroundPoints(canvasEl) :
        /\ PointerDownCanvasAt(p)
             => /\ startPointer' = SurfacePosition(p)
                /\ InSurface(startPointer')
        /\ PointerMoveAt(p)
             => /\ Native(p) = SurfacePosition(p)
                /\ InSurface(Native(p))
                /\ (isDrawing /\ isCropDefined')
                     => /\ cropRect'.x = Min(startPointer.x, SurfacePosition(p).x)
                        /\ cropRect'.y = Min(startPointer.y, SurfacePosition(p).y)

C31_AnchorStep == isManipulating' => InSurface(startPointer')

C31_PointersInsideSurface ==
    /\ [][C31_PointerStep]_vars
    /\ [][C31_AnchorStep]_vars
    /\ [](SessionActive => InSurface(startPointer))

\* A pointerdown in the container left of and below the canvas: the anchor
\* is clamped to the surface's west and south edges.
C31_Witness ==
    /\ lastOp = "onDrawStart"
    /\ isDrawing
    /\ startPointer.x = 0
    /\ startPointer.y = canvasEl.height

(***************************************************************************)
(* C32: when resizing with a handle containing w (resp. n) the opposite    *)
(* edge stays fixed for every delta: after each pointermove x + width      *)
(* equals the anchor region's x + width (resp. y + height equals the       *)
(* anchor's y + height), including when the pointer is dragged past the    *)
(* opposite edge and the size is held at the minimum.  Stated for the      *)
(* sessions in which the handle rules run (the drawing flag is down).      *)
(***************************************************************************)
C32_OppositeEdgeStep ==
    \A p \in ClientPoints :
        (Manipulating /\ ~isDrawing /\ activeHandle \in Handles /\ PointerMoveAt(p))
            => /\ Includes(activeHandle, "w")
                    => cropRect'.x + cropRect'.width
                           = startCropRect.x + startCropRect.width
               /\ Includes(activeHandle, "n")
                    => cropRect'.y + cropRect'.height
                           = startCropRect.y + startCropRect.height

C32_OppositeEdgeFixed == [][C32_OppositeEdgeStep]_vars

\* The same while the written size stays at least MinSize and the anchor
\* region lies inside the surface.
C32_OppositeEdgeStepInRange ==
    \A p \in ClientPoints :
        (Manipulating /\ ~isDrawing /\ activeHandle \in Handles /\ PointerMoveAt(p))
            => /\ ( /\ Includes(activeHandle, "w")
                    /\ startCropRect.width - DeltaX(p) >= MinSize
                    /\ startCropRect.x + startCropRect.width <= canvasEl.width )
                    => cropRect'.x + cropRect'.width
                           = startCropRect.x + startCropRect.width
               /\ ( /\ Includes(activeHandle, "n")
                    /\ startCropRect.height - DeltaY(p) >= MinSize
                    /\ startCropRect.y + startCropRect.height <= canvasEl.height )
                    => cropRect'.y + cropRect'.height
                           = startCropRect.y + startCropRect.height

C32_OppositeEdgeFixedInRange == [][C32_OppositeEdgeStepInRange]_vars

(***************************************************************************)
(* C33: ending a session in which the region is defined preserves the      *)
(* region: a pointerup or pointercancel after a drawing session that       *)
(* crossed the threshold, or after any manipulating session, leaves the    *)
(* region's origin and size, isCropDefined = TRUE, the overlay's           *)
(* visibility and the overlay's pointerdown listener unchanged; only the   *)
(* mode, the active handle and the window's listeners are reset.           *)
(***************************************************************************)
C33_EndStep ==
    (isCropDefined /\ (PointerUp \/ PointerCancel))
        => /\ cropRect' = cropRect
           /\ isCropDefined'
           /\ cropBoxEl' = cropBoxEl
           /\ canvasEl' = canvasEl
           /\ startPointer' = startPointer
           /\ startCropRect' = startCropRect
           /\ containerListeners' = containerListeners
           /\ Idle'
           /\ windowListeners' = {}

C33_EndPreservesRegion == [][C33_EndStep]_vars

\* The release of a drawing session that crossed the threshold, as the
\* fourth handler: the region drawn is still there.
C33_Witness ==
    /\ EndedLast
    /\ steps = 4
    /\ isCropDefined
    /\ OverlayShown
    /\ cropRect.width >= MinSize
    /\ Idle

(***************************************************************************)
(* C34: a region cleared in the middle of a gesture cannot be resurrected  *)
(* by that gesture: after clear() or deactivate() ran while a drawing or   *)
(* manipulating session was in progress, every later pointermove,          *)
(* pointerup or pointercancel of that gesture leaves isCropDefined false,  *)
(* the overlay hidden and the region unchanged, until a new pointerdown    *)
(* starts a new session.                                                   *)
(***************************************************************************)
\* clear() and deactivate() leave the no-region state, whatever the session.
C34_AfterClear == (ClearedLast \/ DeactivatedLast) => ClearedState

\* From the no-region state the rest of the gesture changes nothing of it.
C34_GestureStep ==
    (ClearedState /\ (PointerMove \/ PointerUp \/ PointerCancel))
        => /\ ClearedState'
           /\ cropRect' = cropRect
           /\ canvasEl' = canvasEl

C34_NoResurrection == []C34_AfterClear /\ [][C34_GestureStep]_vars

\* A pointermove of the gesture whose region clear() discarded: the
\* window's listeners are those of the session that was cleared.
C34_Witness ==
    /\ MovedLast
    /\ ClearedState
    /\ windowListeners = SessionListeners
    /\ cropRect.width >= MinSize

(***************************************************************************)
(* C35: confirming the photo applies the crop if and only if a region is   *)
(* defined and then always deactivates the editor, so after confirmPhoto   *)
(* the surface has been replaced at most once, isCropDefined is false and  *)
(* no listener of the editor remains; a defined region never persists      *)
(* against the surface that the commit replaced.  (The frames are below    *)
(* the 1280 pixels from which confirmPhoto also scales the surface down.)  *)
(***************************************************************************)
ConfirmedLast == lastOp = "confirmPhoto"

C35_ConfirmStep ==
    ConfirmPhoto
        => /\ isCropDefined
                => /\ canvasEl'.width = cropRect.width
                   /\ canvasEl'.height = cropRect.height
                   /\ PixelAt(canvasEl', 0, 0) = PixelAt(canvasEl, cropRect.x, cropRect.y)
                   /\ PixelAt(canvasEl', cropRect.width - 1, cropRect.height - 1)
                          = PixelAt(canvasEl, cropRect.x + cropRect.width - 1,
                                    cropRect.y + cropRect.height - 1)
           /\ ~isCropDefined => canvasEl' = canvasEl
           /\ cropRect' = cropRect
           /\ ~isCropDefined'
           /\ NoListeners'

ConstrainedLast == lastOp = "constrainCropBox"

C36_SecondStep ==
    (ConstrainedLast /\ CallConstrainCropBox) => cropRect' = cropRect

C36_ConstrainIdempotent == [][C36_SecondStep]_vars

\* The second application to a rectangle that started west of the surface
\* and reached past its east and south edges: the first one changed it.
C36_Witness ==
    /\ ConstrainedLast
    /\ steps = 2
    /\ startCropRect.x < 0
    /\ startCropRect.x + startCropRect.width > canvasEl.width
    /\ startCropRect.y + startCropRect.height > canvasEl.height
    /\ cropRect # startCropRect
    /\ cropRect.x = 0
    /\ cropRect.width = canvasEl.width

(***************************************************************************)
(* C37: the two CropManager implementations of the source (the first and   *)
(* the second app variant) are behaviourally equivalent: run side by side  *)
(* on the same sequence of activate / deactivate / clear / commit and      *)
(* pointer events over the same surface, they have equal region,           *)
(* isCropDefined, mode, active handle, anchors and registered listeners    *)
(* after every step.                                                       *)
(***************************************************************************)
C37_VariantsEquivalent ==
    /\ twin.cropRect = cropRect
    /\ twin.isCropDefined = isCropDefined
    /\ twin.isDrawing = isDrawing
    /\ twin.isManipulating = isManipulating
    /\ twin.activeHandle = activeHandle
    /\ twin.startPointer = startPointer
    /\ twin.startCropRect = startCropRect
    /\ twin.containerListeners = containerListeners
    /\ twin.windowListeners = windowListeners
    /\ twin.cropBoxEl = cropBoxEl
    /\ twin.canvasEl = canvasEl

\* Both variants have drawn a region, resized it with a handle and
\* committed it.
C37_Witness ==
    /\ CommittedLast
    /\ twin.isCropDefined
    /\ twin.activeHandle \in Handles
    /\ twin.cropRect # twin.startCropRect
    /\ twin.canvasEl.width = twin.cropRect.width
    /\ canvasEl.width = cropRect.width
    /\ canvasEl.width < 40

====
